---- MODULE Spec2Model ----
(***************************************************************************)
(* The record model of chemdataextractor (model/base.py): field            *)
(* descriptors, records, the contextual merge engine (merge_contextual,    *)
(* merge_all, binding consolidation, _clean), the subset relation and      *)
(* ModelList.remove_subsets.                                               *)
(*                                                                         *)
(* Python objects live in a heap.  An object is (class, cell, merge        *)
(* counter, merged flag); a cell is what copy.copy shares between the      *)
(* original and the copy: the _values, _confidences and _no_merge_ranges   *)
(* dictionaries.  Field values are tagged: None, str, float, set of str,   *)
(* a reference to a record, or a list of references.                       *)
(***************************************************************************)
EXTENDS Integers, Sequences, FiniteSets, TLC

VARIABLES heap, recA, others, models, pre, last, steps, wire, inferrer, calls,
          cell, yielded, args, element, klass, procs

vars == <<heap, recA, others, models, pre, last, steps, wire, inferrer, calls,
          cell, yielded, args, element, klass, procs>>

\* heap: the objects; recA: the record the merges are called on; others: the
\* records handed to them; models: the ModelList; pre: heap and models before
\* the last call; last: the last call and what it returned; steps: calls made
\* wire: the dictionary the last serialize() returned, <<>> before any;
\* inferrer: the function the inferred fields were declared with; calls: how
\* often it was called, for each inferred field of A;
\* cell: what a parser is handed, a table cell, the match results given to
\* interpret, or a sentence together with what the parser and its model keep;
\* yielded: the records it gave;
\* args: the arguments of a construct_unit_element call, or the span its
\* action is called with; element: what the call gave;
\* klass: what is kept on the model classes, the parse expressions of their
\* fields and the compound names of the document; procs: the calls under way
\* that change or read it
recB == others[1]

\* what the merges, the subset tests and remove_subsets never touch
units == <<args, element>>
UnitsInit == args = <<>> /\ element = <<>>
shared == <<klass, procs>>
SharedInit == klass = <<>> /\ procs = <<>>
grammar == <<cell, yielded, units, shared>>
aux == <<wire, inferrer, calls, grammar>>
AuxInit == wire = <<>> /\ inferrer = <<>> /\ calls = <<>> /\ cell = <<>> /\ yielded = <<>>
           /\ UnitsInit
           /\ SharedInit

----------------------------------------------------------------------------
(* Bounds of the model *)

\* largest structural distance handed to a merge
MaxDist == 2
\* longest ModelList handed to remove_subsets
MaxList == 3
\* longest sequence of merges and cleans in the sequence specification
MaxOps == 2
\* longest keypath handed to __getitem__ and __setitem__
MaxKey == 3
\* most reads and assignments made on a record with inferred fields
MaxReads == 3
\* most slash-delimited values in a table cell
MaxValues == 3
\* most update calls made on the model classes, and most definitions in one
MaxUpdates == 2
MaxDefs == 2
\* most tokens in a span the unit element matches
MaxSpan == 3
\* most words in a sentence handed to a sentence parser, and most sentences
\* handed to it
MaxSentence == 2
MaxParses == 2
\* the integers handed to construct_unit_element as max_power run from
\* -MaxBelowZero to MaxPower
MaxBelowZero == 2
MaxPower == 12

----------------------------------------------------------------------------
(* Values *)

None == [k |-> "None"]
StrV(s) == [k |-> "str", v |-> s]
FltV(n) == [k |-> "flt", v |-> n]
SetV(S) == [k |-> "set", v |-> S]
ObjV(r) == [k |-> "obj", v |-> r]
ListV(l) == [k |-> "list", v |-> l]

\* Python truthiness of a field value.  BaseModel defines neither __bool__
\* nor __len__, so every record is truthy, also one whose fields are all empty.
Truthy(v) ==
    CASE v.k = "None" -> FALSE
      [] v.k = "str" -> v.v # ""
      [] v.k = "flt" -> v.v # 0
      [] v.k = "set" -> v.v # {}
      [] v.k = "list" -> v.v # <<>>
      [] v.k = "obj" -> TRUE

----------------------------------------------------------------------------
(* Contextual ranges (model/contextual_range.py): totally ordered          *)
(* distances, counted in sentences; DocumentRange exceeds every distance.  *)

SentenceRange == 1
DocumentRange == MaxDist + 10
\* no_merge_range: the per-record override, else 0 * SentenceRange()
ZeroRange == 0 * SentenceRange

----------------------------------------------------------------------------
(* Field descriptors: BaseType.__init__ and its subclasses *)

DefaultOf(kind) ==
    CASE kind = "set" -> SetV({})
      [] kind = "list" -> ListV(<<>>)
      [] OTHER -> None

\* requiredness is kept in percent
Fld(kind, model) ==
    [kind |-> kind, model |-> model, default |-> DefaultOf(kind),
     required |-> FALSE, requiredness |-> 100, contextual |-> FALSE,
     crange |-> DocumentRange, binding |-> FALSE, ignore |-> FALSE,
     never |-> FALSE]

\* The schema the records are drawn from.  ThemeCompound is model.py's compound
\* (three set fields, two kept here) with roles contextual; Cond is a nested
\* condition record (as condition.py's Solvent) with a binding name, which
\* also declares compound;
\* Prop is a property record (as lifetime.py's DelayedLifetime) with a binding
\* compound; Apparatus is unrelated to the others.
\* CNLabel is model.py's CNLabel: a
\* string field whose name has a capital letter, and a compound.  Sample nests
\* a property record and has a name that is required with requiredness 0.2.
\* Quantity has two fields inferred from raw_value, one with default 0.0.
\* Entry is a record an auto-parser is built for: it requires a scalar, a
\* nested record, a set and a list, none of them contextual, and a contextual
\* note; Medium is the record nested in it, with a required name.
Classes ==
    {"ThemeCompound", "Cond", "Prop", "Apparatus", "CNLabel", "Sample", "Quantity",
     "Entry", "Medium"}

FieldOrder ==
    [ThemeCompound |-> <<"labels", "roles">>,
     Cond |-> <<"name", "compound">>,
     Prop |-> <<"specifier", "value", "units", "note", "compound", "cond", "conds">>,
     Apparatus |-> <<"name">>,
     CNLabel |-> <<"label_Juraj", "compound">>,
     Sample |-> <<"name", "prop">>,
     Quantity |-> <<"raw_value", "value", "error">>,
     Entry |-> <<"specifier", "medium", "tags", "refs", "note">>,
     Medium |-> <<"name", "specifier">>]

Fields ==
    [ThemeCompound |->
        [labels |-> Fld("set", ""),
         roles |-> [Fld("set", "") EXCEPT !.contextual = TRUE]],
     Cond |->
        [name |-> [Fld("str", "") EXCEPT !.required = TRUE, !.binding = TRUE],
         compound |-> [Fld("model", "ThemeCompound") EXCEPT !.contextual = TRUE,
                                                            !.crange = SentenceRange]],
     Prop |->
        [specifier |-> [Fld("str", "") EXCEPT !.required = TRUE, !.ignore = TRUE],
         value |-> [Fld("flt", "") EXCEPT !.contextual = TRUE],
         units |-> [Fld("str", "") EXCEPT !.contextual = TRUE, !.crange = SentenceRange,
                                          !.required = TRUE, !.requiredness = 50],
         note |-> [Fld("str", "") EXCEPT !.contextual = TRUE, !.never = TRUE],
         compound |-> [Fld("model", "ThemeCompound") EXCEPT !.contextual = TRUE,
                                                            !.binding = TRUE],
         cond |-> [Fld("model", "Cond") EXCEPT !.contextual = TRUE],
         conds |-> [Fld("list", "Cond") EXCEPT !.contextual = TRUE]],
     Apparatus |->
        [name |-> Fld("str", "")],
     CNLabel |->
        [label_Juraj |-> Fld("str", ""),
         compound |-> Fld("model", "ThemeCompound")],
     Sample |->
        [name |-> [Fld("str", "") EXCEPT !.required = TRUE, !.requiredness = 20],
         prop |-> Fld("model", "Prop")],
     Quantity |->
        [raw_value |-> Fld("str", ""),
         value |-> Fld("flt", ""),
         error |-> [Fld("flt", "") EXCEPT !.default = FltV(0)]],
     Entry |->
        [specifier |-> [Fld("str", "") EXCEPT !.required = TRUE],
         medium |-> [Fld("model", "Medium") EXCEPT !.required = TRUE],
         tags |-> [Fld("set", "") EXCEPT !.required = TRUE],
         refs |-> [Fld("list", "Medium") EXCEPT !.required = TRUE],
         note |-> [Fld("str", "") EXCEPT !.required = TRUE, !.contextual = TRUE]],
     Medium |->
        [name |-> [Fld("str", "") EXCEPT !.required = TRUE],
         specifier |-> Fld("str", "")]]

\* the fields declared as InferredProperty(FloatType(), origin_field, inferrer),
\* with their origin_field
InferredFrom == [Quantity |-> [value |-> "raw_value", error |-> "raw_value"]]

FieldNames(cls) == {FieldOrder[cls][i] : i \in 1..Len(FieldOrder[cls])}

\* hasattr(field, 'model_class'): a ModelType field
IsModelField(fd) == fd.kind = "model"
\* hasattr(field, 'field') and hasattr(field.field, 'model_class')
IsModelListField(fd) == fd.kind = "list"

----------------------------------------------------------------------------
(* The heap *)

EmptyHeap == [objs |-> <<>>, cells |-> <<>>]

ClassOf(h, r) == h.objs[r].cls
CellOf(h, r) == h.objs[r].cell

\* BaseType.__get__: instance._values.get(self.name)
GetAttr(h, r, f) == h.cells[CellOf(h, r)].vals[f]

\* process() of the field's type, applied by __set__
Process(h, fd, v) ==
    CASE fd.kind = "model" ->
            IF v.k = "obj" /\ ClassOf(h, v.v) = fd.model THEN v ELSE None
      [] fd.kind = "list" ->
            IF v.k # "list" THEN v
            ELSE ListV([i \in 1..Len(v.v) |->
                           IF ClassOf(h, v.v[i]) = fd.model THEN v.v[i] ELSE 0])
      [] OTHER -> v

\* self[field_name] = value: __setitem__, setattr, BaseType.__set__
SetAttr(h, r, f, v) ==
    [h EXCEPT !.cells[CellOf(h, r)].vals[f] = Process(h, Fields[ClassOf(h, r)][f], v)]

----------------------------------------------------------------------------
(* Pure queries on records *)

RECURSIVE PyEq(_, _, _)
\* Python == on field values; records compare by BaseModel.__eq__
PyEq(h, a, b) ==
    IF a.k # b.k THEN FALSE
    ELSE CASE a.k = "obj" ->
                 \/ a.v = b.v
                 \/ /\ ClassOf(h, a.v) = ClassOf(h, b.v)
                    /\ \A f \in FieldNames(ClassOf(h, a.v)) :
                          PyEq(h, GetAttr(h, a.v, f), GetAttr(h, b.v, f))
           [] a.k = "list" ->
                 /\ Len(a.v) = Len(b.v)
                 /\ \A i \in 1..Len(a.v) : PyEq(h, ObjV(a.v[i]), ObjV(b.v[i]))
           [] OTHER -> a = b

\* field.is_empty(value) of StringType, FloatType, ListType, SetType
IsEmptyScalar(fd, v) ==
    CASE fd.kind = "str" -> ~(v.k = "str" /\ v.v # "")
      [] fd.kind = "flt" -> v.k = "None"
      [] fd.kind = "set" -> ~(v.k = "set" /\ v.v # {})
      [] fd.kind = "list" -> ~(v.k = "list" /\ v.v # <<>>)

RECURSIVE is_empty(_, _)
\* BaseModel.is_empty, with ModelType.is_empty for nested records
is_empty(h, r) ==
    \A f \in FieldNames(ClassOf(h, r)) :
        LET fd == Fields[ClassOf(h, r)][f]
            v == GetAttr(h, r, f)
        IN  IF fd.kind = "model"
            THEN IF v.k = "obj" /\ ClassOf(h, v.v) = fd.model THEN is_empty(h, v.v) ELSE TRUE
            ELSE IsEmptyScalar(fd, v)

FieldIsEmpty(h, fd, v) ==
    IF fd.kind = "model"
    THEN IF v.k = "obj" /\ ClassOf(h, v.v) = fd.model THEN is_empty(h, v.v) ELSE TRUE
    ELSE IsEmptyScalar(fd, v)

RECURSIVE is_superset(_, _, _)
\* BaseModel.is_superset(self, other), both records
is_superset(h, self, other) ==
    /\ ClassOf(h, self) = ClassOf(h, other)
    /\ \A f \in FieldNames(ClassOf(h, self)) :
          LET fd == Fields[ClassOf(h, self)][f]
              sv == GetAttr(h, self, f)
              ov == GetAttr(h, other, f)
          IN  IF IsModelField(fd)
              THEN IF ~Truthy(sv) THEN ~Truthy(ov)
                   ELSE IF ~Truthy(ov) THEN TRUE
                   ELSE is_superset(h, sv.v, ov.v)
              ELSE ~(Truthy(ov) /\ ~PyEq(h, sv, ov))

is_subset(h, self, other) == is_superset(h, other, self)

RECURSIVE contextual_fulfilled(_, _)
contextual_fulfilled(h, r) ==
    \A f \in FieldNames(ClassOf(h, r)) :
        LET fd == Fields[ClassOf(h, r)][f]
            v == GetAttr(h, r, f)
        IN  IF IsModelField(fd)
            THEN /\ ~(PyEq(h, v, fd.default) /\ fd.contextual)
                 /\ ~(v.k = "obj" /\ ~contextual_fulfilled(h, v.v))
            ELSE ~(fd.contextual /\ PyEq(h, v, fd.default))

RECURSIVE RequiredFulfilled(_, _, _)
\* BaseModel._required_fulfilled(strict)
RequiredFulfilled(h, r, strict) ==
    \A f \in FieldNames(ClassOf(h, r)) :
        LET fd == Fields[ClassOf(h, r)][f]
            v == GetAttr(h, r, f)
            exempt == ~strict /\ fd.contextual
            hard == fd.required /\ fd.requiredness = 100
        IN  IF IsModelField(fd)
            THEN /\ (PyEq(h, v, fd.default) /\ hard) => exempt
                 /\ (hard /\ v.k = "obj" /\ ~RequiredFulfilled(h, v.v, TRUE)) => exempt
            ELSE (hard /\ PyEq(h, v, fd.default)) => exempt

required_fulfilled(h, r) == RequiredFulfilled(h, r, TRUE)
noncontextual_required_fulfilled(h, r) == RequiredFulfilled(h, r, FALSE)

RECURSIVE flatten(_)
\* BaseModel.flatten: the classes reachable from cls through model fields
flatten(cls) ==
    {cls} \cup UNION {flatten(Fields[cls][f].model) :
                         f \in {g \in FieldNames(cls) : Fields[cls][g].model # ""}}

\* binding_properties as it would be without the test that the field is set:
\* every binding field, also one that holds None
binding_properties_of_unset_fields(h, r) ==
    [f \in {g \in FieldNames(ClassOf(h, r)) : Fields[ClassOf(h, r)][g].binding}
        |-> GetAttr(h, r, f)]

\* BaseModel.binding_properties: name -> value of the truthy binding fields
binding_properties(h, r) ==
    [f \in {g \in FieldNames(ClassOf(h, r)) :
               Fields[ClassOf(h, r)][g].binding /\ Truthy(GetAttr(h, r, g))}
        |-> GetAttr(h, r, f)]

RECURSIVE Compatible(_, _, _)
\* BaseModel._compatible(self, other)
Compatible(h, self, other) ==
    /\ ClassOf(h, other) = ClassOf(h, self)
    /\ \A f \in FieldNames(ClassOf(h, self)) :
          LET fd == Fields[ClassOf(h, self)][f]
              sv == GetAttr(h, self, f)
              ov == GetAttr(h, other, f)
          IN  CASE fd.kind = "model" ->
                      ~(/\ ~fd.ignore
                        /\ sv.k # "None"
                        /\ ov.k # "None"
                        /\ ~Compatible(h, sv.v, ov.v))
                [] fd.kind \in {"list", "set"} ->
                      ~(/\ ~fd.ignore
                        /\ sv.k # "None" /\ Truthy(sv)
                        /\ ov.k # "None" /\ Truthy(ov)
                        /\ ~PyEq(h, sv, ov))
                [] OTHER ->
                      ~(/\ ~fd.ignore
                        /\ sv.k # "None"
                        /\ ov.k # "None"
                        /\ ~PyEq(h, sv, ov))

\* BaseModel._should_keep_both_records(self, other)
should_keep_both_records(h, self, other) ==
    /\ ClassOf(h, other) = ClassOf(h, self)
    /\ \E f \in FieldNames(ClassOf(h, self)) :
          LET fd == Fields[ClassOf(h, self)][f]
              sv == GetAttr(h, self, f)
              ov == GetAttr(h, other, f)
          IN  /\ fd.ignore
              /\ sv.k # "None"
              /\ ov.k # "None"
              /\ IF fd.kind = "model" THEN ~Compatible(h, sv.v, ov.v)
                                      ELSE ~PyEq(h, sv, ov)

RECURSIVE BindingCompatible(_, _, _)
RECURSIVE BindingOther(_, _, _, _, _)

\* _binding_compatible, other of another type: the loop over other.fields from
\* index i on.  binding_properties[f].is_superset exists only when the binding
\* value is a record: for a str or a set the call raises AttributeError.
BindingOther(h, self, bp, other, i) ==
    LET order == FieldOrder[ClassOf(h, other)]
    IN  IF i > Len(order) THEN "True"
        ELSE
        LET f == order[i]
            fd == Fields[ClassOf(h, other)][f]
            ov == GetAttr(h, other, f)
            here == IF f \in DOMAIN bp
                    THEN IF ~Truthy(ov) THEN "True"
                         ELSE IF bp[f].k # "obj" \/ ov.k # "obj" THEN "raise"
                         ELSE IF \/ is_superset(h, bp[f].v, ov.v)
                                 \/ is_subset(h, bp[f].v, ov.v)
                              THEN "True" ELSE "False"
                    ELSE IF IsModelField(fd) THEN BindingCompatible(h, self, ov)
                    ELSE "True"
        IN  IF here = "True" THEN BindingOther(h, self, bp, other, i + 1) ELSE here

\* BaseModel._binding_compatible(self, other); other is a field value, a record
\* or None (the recursion passes other[field_name]).  "True", "False", or
\* "raise" when the check ends in an AttributeError.
BindingCompatible(h, self, other) ==
    LET bp == binding_properties(h, self)
    IN  IF DOMAIN bp = {} THEN "True"
        ELSE IF other.k = "obj" /\ ClassOf(h, other.v) = ClassOf(h, self)
        THEN IF \A f \in DOMAIN bp : PyEq(h, GetAttr(h, other.v, f), bp[f])
             THEN "True" ELSE "False"
        ELSE IF ~Truthy(other) THEN "True"
        ELSE BindingOther(h, self, bp, other.v, 1)

----------------------------------------------------------------------------
(* Confidences, in percent *)

ConfOf(h, r) == h.cells[CellOf(h, r)].conf

RECURSIVE FactorFrom(_, _, _)
\* BaseModel._requiredness_factor: the loop over self.fields from index i on
FactorFrom(h, r, i) ==
    LET order == FieldOrder[ClassOf(h, r)]
    IN  IF i > Len(order) THEN 100
        ELSE LET f == order[i]
                 fd == Fields[ClassOf(h, r)][f]
                 v == GetAttr(h, r, f)
                 own == IF fd.required /\ fd.requiredness # 100 /\ FieldIsEmpty(h, fd, v)
                        THEN 100 - fd.requiredness ELSE 100
                 sub == IF IsModelField(fd) /\ v.k # "None"
                        THEN FactorFrom(h, v.v, 1) ELSE 100
             IN  (((own * sub) \div 100) * FactorFrom(h, r, i + 1)) \div 100

requiredness_factor(h, r) == FactorFrom(h, r, 1)

\* the least element of a non-empty set of numbers
MinOf(S) == CHOOSE x \in S : \A y \in S : x <= y

\* the pooled confidence of the fields, 100 when there is none to pool
Pooled(cs) == IF cs = {} THEN 100 ELSE MinOf(cs)

RECURSIVE TotalConfidence(_, _, _)
RECURSIVE FieldConfidences(_, _, _)

\* get_confidence(key) for every field that has a confidence: the value of
\* _confidences[key], or the total confidence of a nested record
FieldConfidences(h, r, pool) ==
    LET cls == ClassOf(h, r)
    IN  {IF GetAttr(h, r, f).k = "obj"
         THEN TotalConfidence(h, GetAttr(h, r, f).v, pool)
         ELSE ConfOf(h, r)[f] :
            f \in {g \in FieldNames(cls) :
                      /\ GetAttr(h, r, g).k # "None"
                      /\ GetAttr(h, r, g).k = "obj" \/ g \in DOMAIN ConfOf(h, r)}}

\* BaseModel.total_confidence(pooling_method); pool is "min" for min_value and
\* "none" for the lambda x: None of merge_confidence
TotalConfidence(h, r, pool) ==
    IF "self" \in DOMAIN ConfOf(h, r) THEN ConfOf(h, r)["self"]
    ELSE (Pooled(IF pool = "min" THEN FieldConfidences(h, r, pool) ELSE {})
          * requiredness_factor(h, r)) \div 100

total_confidence(h, r) == TotalConfidence(h, r, "min")

\* BaseModel.get_confidence(key, pooling_method=pool): <<>> for None, else <<c>>
get_confidence(h, r, key, pool) ==
    IF key = "self" THEN <<total_confidence(h, r)>>
    ELSE LET v == GetAttr(h, r, key)
         IN  IF v.k = "None" THEN <<>>
             ELSE IF v.k = "obj" THEN <<TotalConfidence(h, v.v, pool)>>
             ELSE IF key \in DOMAIN ConfOf(h, r) THEN <<ConfOf(h, r)[key]>>
             ELSE <<>>

\* d[k] = v on a Python dictionary
DictPut(d, key, v) == [x \in DOMAIN d \cup {key} |-> IF x = key THEN v ELSE d[x]]

\* BaseModel.set_confidence(key, value)
set_confidence(h, r, key, c) ==
    IF key = "self"
    THEN [h EXCEPT !.cells[CellOf(h, r)].conf = DictPut(@, "self", c)]
    ELSE LET v == GetAttr(h, r, key)
         IN  IF v.k = "None" THEN h
             ELSE IF v.k = "obj"
             THEN [h EXCEPT !.cells[CellOf(h, v.v)].conf = DictPut(@, "self", c)]
             ELSE [h EXCEPT !.cells[CellOf(h, r)].conf = DictPut(@, key, c)]

\* the confidence merge_confidence stores, given the two it read: the other
\* record's when self has none, the lower one when both have one, <<>> for none
LowerConfidence(sc, oc) ==
    IF oc = <<>> THEN <<>>
    ELSE IF sc = <<>> THEN oc
    ELSE IF sc[1] < oc[1] THEN sc ELSE oc

\* the set_confidence call of merge_confidence; no call when c is <<>>
StoreConfidence(h, r, key, c) == IF c = <<>> THEN h ELSE set_confidence(h, r, key, c[1])

\* BaseModel.merge_confidence(other, field_name): keep the lower confidence
merge_confidence(h, self, other, key) ==
    StoreConfidence(h, self, key,
                    LowerConfidence(get_confidence(h, self, key, "none"),
                                    get_confidence(h, other, key, "none")))

----------------------------------------------------------------------------
(* Merging *)

\* what a merge hands back: the heap it leaves and the value it returns, one of
\* "True", "False" and "self" (the record itself, returned by merge_contextual)
Res(h, ret) == [h |-> h, ret |-> ret]

\* copy.copy(other): a new object that shares other's dictionaries
CopyOf(h, r) == [h EXCEPT !.objs = Append(@, h.objs[r])]
NewRef(h) == Len(h.objs) + 1

\* BaseModel.contextual_range(field_name)
contextual_range(h, r, f) == Fields[ClassOf(h, r)][f].crange

\* BaseModel.no_merge_range(field_name)
no_merge_range(h, r, f) ==
    LET nmr == h.cells[CellOf(h, r)].nmr
    IN  IF f \in DOMAIN nmr THEN nmr[f] ELSE ZeroRange

RECURSIVE ConsolidateFrom(_, _, _, _)
\* BaseModel._consolidate_binding(binding_properties): the loop from index i on
ConsolidateFrom(h, r, bp, i) ==
    LET order == FieldOrder[ClassOf(h, r)]
    IN  IF i > Len(order) THEN h
        ELSE LET f == order[i]
                 fd == Fields[ClassOf(h, r)][f]
                 v == GetAttr(h, r, f)
                 h1 == IF f \in DOMAIN bp THEN SetAttr(h, r, f, bp[f])
                       ELSE IF IsModelField(fd) /\ Truthy(v)
                       THEN ConsolidateFrom(h, v.v, bp, 1)
                       ELSE h
             IN  ConsolidateFrom(h1, r, bp, i + 1)

\* BaseModel._consolidate_binding()
consolidate_binding(h, r) ==
    LET bp == binding_properties(h, r)
    IN  IF DOMAIN bp = {} THEN h ELSE ConsolidateFrom(h, r, bp, 1)

\* the lines that record on a ThemeCompound whether it took part in a merge
SetMerged(h, r, did) ==
    IF ClassOf(h, r) # "ThemeCompound" THEN h
    ELSE [h EXCEPT !.objs[r].merged =
             IF @ = "unset" THEN (IF did THEN "True" ELSE "False")
             ELSE IF did \/ @ = "True" THEN "True" ELSE "False"]

InRange(h, r, f, d) == d <= contextual_range(h, r, f) /\ d > no_merge_range(h, r, f)

\* the state of a merge loop: the heap, did_merge, and whether a nested merge
\* raised (the exception leaves the loop and the merge)
Loop(h, did, exc) == [h |-> h, did |-> did, exc |-> exc]

RECURSIVE merge_contextual(_, _, _, _)
RECURSIVE ContextualOther(_, _, _, _, _, _)
RECURSIVE ContextualSame(_, _, _, _, _, _)

\* merge_contextual, other of another type: the loop over self.fields from
\* index i on; did is did_merge so far
ContextualOther(h, self, other, d, i, did) ==
    LET cls == ClassOf(h, self)
        order == FieldOrder[cls]
    IN  IF i > Len(order) THEN Loop(h, did, FALSE)
        ELSE
        LET f == order[i]
            fd == Fields[cls][f]
            v == GetAttr(h, self, f)
            isinst == ClassOf(h, other) = fd.model
        IN  IF IsModelListField(fd) /\ isinst
            THEN IF ~fd.never /\ fd.contextual /\ ~Truthy(v) /\ InRange(h, self, f, d)
                 THEN ContextualOther(SetAttr(h, self, f, ListV(<<other>>)),
                                      self, other, d, i + 1, TRUE)
                 ELSE ContextualOther(h, self, other, d, i + 1, did)
            ELSE IF IsModelField(fd) /\ isinst /\ ~fd.never
            THEN IF /\ v.k # "None"
                    /\ fd.contextual
                    /\ ~contextual_fulfilled(h, v.v)
                    /\ InRange(h, self, f, d)
                 THEN LET sub == merge_contextual(h, v.v, other, SentenceRange)
                      IN  IF sub.ret = "raise" THEN Loop(sub.h, did, TRUE)
                          ELSE ContextualOther(sub.h, self, other, d, i + 1,
                                               did \/ sub.ret # "False")
                 ELSE IF fd.contextual /\ ~Truthy(v) /\ InRange(h, self, f, d)
                 THEN ContextualOther(SetAttr(CopyOf(h, other), self, f, ObjV(NewRef(h))),
                                      self, other, d, i + 1, TRUE)
                 ELSE ContextualOther(h, self, other, d, i + 1, did)
            ELSE ContextualOther(h, self, other, d, i + 1, did)

\* merge_contextual, two records of the same type: the loop from index i on
ContextualSame(h, self, other, d, i, did) ==
    LET cls == ClassOf(h, self)
        order == FieldOrder[cls]
    IN  IF i > Len(order) THEN Loop(h, did, FALSE)
        ELSE
        LET f == order[i]
            fd == Fields[cls][f]
        IN  IF /\ fd.contextual
               /\ ~fd.never
               /\ ~Truthy(GetAttr(h, self, f))
               /\ Truthy(GetAttr(h, other, f))
               /\ InRange(h, self, f, d)
            THEN ContextualSame(
                     merge_confidence(SetAttr(h, self, f, GetAttr(h, other, f)),
                                      self, other, f),
                     self, other, d, i + 1, TRUE)
            ELSE ContextualSame(h, self, other, d, i + 1, did)

\* self._contextual_merge_count += 1, when the merge is one that is counted
CountMerge(h, r, counted) == IF counted THEN [h EXCEPT !.objs[r].cnt = @ + 1] ELSE h

\* the merge of the records' own confidences that follows a merge
MergeOwnConfidence(h, self, other, did) ==
    IF did /\ "self" \in DOMAIN ConfOf(h, other)
    THEN merge_confidence(h, self, other, "self") ELSE h

\* what merge_contextual and merge_all do after their loops: consolidate the
\* binding fields, mark the compounds, count the merge (merge_contextual only),
\* merge the records' own confidences and take the result back when both
\* records are to be kept
Finish(l, self, other, keep, counted) ==
    IF l.exc THEN Res(l.h, "raise")
    ELSE Res(MergeOwnConfidence(
                 CountMerge(
                     SetMerged(SetMerged(consolidate_binding(l.h, self), self, l.did),
                               other, l.did),
                     self, l.did /\ counted),
                 self, other, l.did),
             IF l.did /\ ~keep THEN "True" ELSE "False")

\* BaseModel.merge_contextual(self, other, distance)
merge_contextual(h, self, other, d) ==
    LET keep == should_keep_both_records(h, self, other)
        binding == BindingCompatible(h, self, ObjV(other))
        foreign == ClassOf(h, self) # ClassOf(h, other)
    IN  IF contextual_fulfilled(h, self) THEN Res(h, "self")
        ELSE IF binding = "raise" THEN Res(h, "raise")
        ELSE IF /\ binding = "True"
                /\ foreign
                /\ ClassOf(h, other) \notin flatten(ClassOf(h, self))
        THEN Res(h, "False")
        ELSE Finish(IF binding = "False" THEN Loop(h, FALSE, FALSE)
                    ELSE IF foreign THEN ContextualOther(h, self, other, d, 1, FALSE)
                    ELSE IF Compatible(h, self, other)
                    THEN ContextualSame(h, self, other, d, 1, FALSE)
                    ELSE Loop(h, FALSE, FALSE),
                    self, other, keep, TRUE)

RECURSIVE merge_all(_, _, _, _)
RECURSIVE AllOther(_, _, _, _, _, _)
RECURSIVE AllElements(_, _, _, _, _)
RECURSIVE AllSame(_, _, _, _, _, _)

\* merge_all, the model list case: for el in self[field_name], from index j on
AllElements(h, els, other, j, did) ==
    IF j > Len(els) THEN Loop(h, did, FALSE)
    ELSE LET sub == merge_all(h, els[j], other, SentenceRange)
         IN  IF sub.ret = "raise" THEN Loop(sub.h, did, TRUE)
             ELSE AllElements(sub.h, els, other, j + 1, did \/ sub.ret # "False")

\* merge_all, other of another type: the loop over self.fields from index i on
AllOther(h, self, other, d, i, did) ==
    LET cls == ClassOf(h, self)
        order == FieldOrder[cls]
    IN  IF i > Len(order) THEN Loop(h, did, FALSE)
        ELSE
        LET f == order[i]
            fd == Fields[cls][f]
            v == GetAttr(h, self, f)
            isinst == ClassOf(h, other) = fd.model
            far == d > no_merge_range(h, self, f)
        IN  IF IsModelListField(fd) /\ isinst /\ ~fd.never
            THEN IF Truthy(v) /\ far
                 THEN LET l == AllElements(h, v.v, other, 1, did)
                      IN  IF l.exc THEN l
                          ELSE AllOther(l.h, self, other, d, i + 1, l.did)
                 ELSE IF ~Truthy(v) /\ far
                 THEN AllOther(SetAttr(CopyOf(h, other), self, f, ListV(<<NewRef(h)>>)),
                               self, other, d, i + 1, TRUE)
                 ELSE AllOther(h, self, other, d, i + 1, did)
            ELSE IF IsModelField(fd) /\ isinst /\ ~fd.never
            THEN IF Truthy(v) /\ far
                 THEN LET sub == merge_all(h, v.v, other, SentenceRange)
                      IN  IF sub.ret = "raise" THEN Loop(sub.h, did, TRUE)
                          ELSE AllOther(sub.h, self, other, d, i + 1,
                                        did \/ sub.ret # "False")
                 ELSE IF ~Truthy(v) /\ far
                 THEN AllOther(SetAttr(CopyOf(h, other), self, f, ObjV(NewRef(h))),
                               self, other, d, i + 1, TRUE)
                 ELSE AllOther(h, self, other, d, i + 1, did)
            ELSE AllOther(h, self, other, d, i + 1, did)

\* merge_all, two records of the same type: the loop from index i on
AllSame(h, self, other, d, i, did) ==
    LET cls == ClassOf(h, self)
        order == FieldOrder[cls]
    IN  IF i > Len(order) THEN Loop(h, did, FALSE)
        ELSE
        LET f == order[i]
            fd == Fields[cls][f]
        IN  IF /\ ~Truthy(GetAttr(h, self, f))
               /\ Truthy(GetAttr(h, other, f))
               /\ ~fd.never
               /\ d > no_merge_range(h, self, f)
            THEN AllSame(
                     merge_confidence(SetAttr(h, self, f, GetAttr(h, other, f)),
                                      self, other, f),
                     self, other, d, i + 1, TRUE)
            ELSE AllSame(h, self, other, d, i + 1, did)

\* BaseModel.merge_all(self, other, strict, distance); strict is not read
merge_all(h, self, other, d) ==
    LET keep == should_keep_both_records(h, self, other)
        binding == BindingCompatible(h, self, ObjV(other))
        foreign == ClassOf(h, self) # ClassOf(h, other)
    IN  IF binding = "raise" THEN Res(h, "raise")
        ELSE IF /\ binding = "True"
                /\ foreign
                /\ ClassOf(h, other) \notin flatten(ClassOf(h, self))
        THEN Res(h, "False")
        ELSE Finish(IF binding = "False" THEN Loop(h, FALSE, FALSE)
                    ELSE IF foreign THEN AllOther(h, self, other, d, 1, FALSE)
                    ELSE IF Compatible(h, self, other)
                    THEN AllSame(h, self, other, d, 1, FALSE)
                    ELSE Loop(h, FALSE, FALSE),
                    self, other, keep, FALSE)

RECURSIVE CleanFrom(_, _, _, _)
\* BaseModel._clean(clean_contextual): the loop over self.fields from index i on
CleanFrom(h, r, clean_contextual, i) ==
    LET cls == ClassOf(h, r)
        order == FieldOrder[cls]
    IN  IF i > Len(order) THEN h
        ELSE
        LET f == order[i]
            fd == Fields[cls][f]
            v == GetAttr(h, r, f)
        IN  IF IsModelField(fd) /\ Truthy(v)
            THEN LET h1 == CleanFrom(h, v.v, clean_contextual, 1)
                     ok == IF clean_contextual THEN required_fulfilled(h1, v.v)
                           ELSE noncontextual_required_fulfilled(h1, v.v)
                     h2 == IF ok THEN h1 ELSE SetAttr(h1, r, f, fd.default)
                 IN  CleanFrom(h2, r, clean_contextual, i + 1)
            ELSE CleanFrom(h, r, clean_contextual, i + 1)

\* BaseModel._clean(clean_contextual)
clean(h, r, clean_contextual) == CleanFrom(h, r, clean_contextual, 1)

----------------------------------------------------------------------------
(* ModelList.remove_subsets *)

RECURSIVE TypeOrder(_, _, _)
\* the keys of typed_list, in the order the types are first met
TypeOrder(h, ms, i) ==
    IF i > Len(ms) THEN <<>>
    ELSE LET rest == TypeOrder(h, ms, i + 1)
             c == ClassOf(h, ms[i])
         IN  <<c>> \o SelectSeq(rest, LAMBDA x : x # c)

\* typed_list[type]: the elements of one type, in list order
Typed(h, ms, c) == SelectSeq(ms, LAMBDA r : ClassOf(h, r) = c)

RECURSIVE InsertDesc(_, _, _)
\* insert r behind every element whose key is not lower than r's
InsertDesc(h, sorted, r) ==
    IF sorted = <<>> THEN <<r>>
    ELSE IF total_confidence(h, Head(sorted)) >= total_confidence(h, r)
    THEN <<Head(sorted)>> \o InsertDesc(h, Tail(sorted), r)
    ELSE <<r>> \o sorted

RECURSIVE SortDesc(_, _, _)
\* elements.sort(key=total_confidence, reverse=True): stable, highest first
SortDesc(h, els, n) ==
    IF n = 0 THEN <<>>
    ELSE InsertDesc(h, SortDesc(h, els, n - 1), els[n])

\* the test of the inner loop as it would be without the look at to_remove
SubsetHitOfRemoved(h, els, i, j, to_remove, strict) ==
    /\ i # j
    /\ is_subset(h, els[i], els[j])
    /\ ~(strict /\ PyEq(h, ObjV(els[i]), ObjV(els[j])))

\* the test of the inner loop for the pair (i, j), to_remove as it stands
SubsetHit(h, els, i, j, to_remove, strict) ==
    /\ i # j
    /\ is_subset(h, els[i], els[j])
    /\ j \notin to_remove
    /\ ~(strict /\ PyEq(h, ObjV(els[i]), ObjV(els[j])))

RECURSIVE ToRemove(_, _, _, _, _)
\* the outer loop from index i on: the indices to remove
ToRemove(h, els, i, to_remove, strict) ==
    IF i > Len(els) THEN to_remove
    ELSE IF \E j \in 1..Len(els) : SubsetHit(h, els, i, j, to_remove, strict)
    THEN ToRemove(h, els, i + 1, to_remove \cup {i}, strict)
    ELSE ToRemove(h, els, i + 1, to_remove, strict)

\* the elements of one type that remove_subsets keeps, sorted
KeptOfType(h, ms, c, strict) ==
    LET els == SortDesc(h, Typed(h, ms, c), Len(Typed(h, ms, c)))
        gone == ToRemove(h, els, 1, {}, strict)
    IN  [els |-> els, gone |-> gone]


\* the elements of els whose index is not in gone, in order
Keep(els, gone) ==
    LET F[i \in 0..Len(els)] ==
            IF i = 0 THEN <<>>
            ELSE IF i \in gone THEN F[i - 1] ELSE Append(F[i - 1], els[i])
    IN  F[Len(els)]

RECURSIVE NewModels(_, _, _, _, _)
\* new_models: the kept elements, type by type, from the k-th type on
NewModels(h, ms, types, k, strict) ==
    IF k > Len(types) THEN <<>>
    ELSE LET t == KeptOfType(h, ms, types[k], strict)
         IN  Keep(t.els, t.gone) \o NewModels(h, ms, types, k + 1, strict)

\* ModelList.remove_subsets(strict): the new value of self.models
remove_subsets(h, ms, strict) == NewModels(h, ms, TypeOrder(h, ms, 1), 1, strict)

----------------------------------------------------------------------------
(* The records the operations are applied to *)

NoDict == [x \in {} |-> 0]

\* BaseModel.__init__: a new record with its own dictionaries
NewRec(h, cls, vals, conf, nmr) ==
    [objs |-> Append(h.objs, [cls |-> cls, cell |-> Len(h.cells) + 1,
                              cnt |-> 0, merged |-> "unset", extra |-> {}]),
     cells |-> Append(h.cells, [vals |-> vals, conf |-> conf, nmr |-> nmr])]

Top(h) == Len(h.objs)

\* an optional value is a sequence of length 0 (None) or 1
OptStr(x) == IF x = <<>> THEN None ELSE StrV(x[1])
OptFlt(x) == IF x = <<>> THEN None ELSE FltV(x[1])
Opt(S) == {<<>>} \cup {<<x>> : x \in S}

CompoundInputs == [labels : {{}, {"1"}, {"2"}}, roles : {{}, {"product"}}]

NestedCompoundInputs == {c \in CompoundInputs : c.roles = {}} \ {[labels |-> {}, roles |-> {}]}

CondInputs == [name : Opt({"water"}), compound : Opt(NestedCompoundInputs)]

NestedCondInputs ==
    {c \in CondInputs : c.name # <<>> \/ c.compound = <<[labels |-> {"2"}, roles |-> {}]>>}
        \ {[name |-> <<"water">>, compound |-> <<[labels |-> {"2"}, roles |-> {}]>>]}

ListedCond == [name |-> <<"water">>, compound |-> <<>>]

\* property records that differ in their scalar fields
FlatPropInputs ==
    [specifier : Opt({"tau", "PLQY"}), value : Opt({0, 1}), units : Opt({"ns"}),
     note : Opt({"film"}), compound : {<<>>}, cond : {<<>>}, conds : {<<>>}]

\* property records that differ in their nested records
NestedPropInputs ==
    [specifier : {<<"tau">>}, value : {<<>>}, units : {<<"ns">>}, note : {<<>>},
     compound : Opt(CompoundInputs), cond : Opt(NestedCondInputs),
     conds : {<<>>, <<ListedCond>>}]

ApparatusInputs == [name : Opt({"laser"})]

\* the confidences and no-merge ranges the two records come with
Profiles == {"plain", "scored"}

ConfOfProfile(p, who) ==
    IF p = "plain" THEN NoDict
    ELSE [x \in {"self"} |-> IF who = "A" THEN 90 ELSE 50]

RangesOfProfile(p, cls, who) ==
    IF p = "plain" \/ who = "B" \/ cls = "Apparatus" THEN NoDict
    ELSE [x \in {IF cls = "ThemeCompound" THEN "roles" ELSE "compound"} |-> SentenceRange]

BuildCompound(h, c, conf, nmr) ==
    NewRec(h, "ThemeCompound", [labels |-> SetV(c.labels), roles |-> SetV(c.roles)], conf, nmr)

BuildCond(h, c, conf, nmr) ==
    LET h1 == IF c.compound = <<>> THEN h ELSE BuildCompound(h, c.compound[1], NoDict, NoDict)
        comp == IF c.compound = <<>> THEN None ELSE ObjV(Top(h1))
    IN  NewRec(h1, "Cond", [name |-> OptStr(c.name), compound |-> comp], conf, nmr)

BuildProp(h, p, conf, nmr) ==
    LET h1 == IF p.compound = <<>> THEN h ELSE BuildCompound(h, p.compound[1], NoDict, NoDict)
        comp == IF p.compound = <<>> THEN None ELSE ObjV(Top(h1))
        h2 == IF p.cond = <<>> THEN h1 ELSE BuildCond(h1, p.cond[1], NoDict, NoDict)
        cond == IF p.cond = <<>> THEN None ELSE ObjV(Top(h2))
        h3 == IF p.conds = <<>> THEN h2 ELSE BuildCond(h2, p.conds[1], NoDict, NoDict)
        conds == IF p.conds = <<>> THEN ListV(<<>>) ELSE ListV(<<Top(h3)>>)
    IN  NewRec(h3, "Prop",
               [specifier |-> OptStr(p.specifier), value |-> OptFlt(p.value),
                units |-> OptStr(p.units), note |-> OptStr(p.note),
                compound |-> comp, cond |-> cond, conds |-> conds], conf, nmr)

BuildApparatus(h, a, conf, nmr) ==
    NewRec(h, "Apparatus", [name |-> OptStr(a.name)], conf, nmr)

BuildCNLabel(h, c, conf, nmr) ==
    LET h1 == IF c.compound = <<>> THEN h ELSE BuildCompound(h, c.compound[1], NoDict, NoDict)
        comp == IF c.compound = <<>> THEN None ELSE ObjV(Top(h1))
    IN  NewRec(h1, "CNLabel", [label_Juraj |-> OptStr(c.label_Juraj), compound |-> comp],
               conf, nmr)

BuildSample(h, x, conf, nmr) ==
    LET h1 == IF x.prop = <<>> THEN h ELSE BuildProp(h, x.prop[1], NoDict, NoDict)
        prop == IF x.prop = <<>> THEN None ELSE ObjV(Top(h1))
    IN  NewRec(h1, "Sample", [name |-> OptStr(x.name), prop |-> prop], conf, nmr)

\* a record of class cls built from the input x
Build(h, cls, x, p, who) ==
    LET conf == ConfOfProfile(p, who)
        nmr == RangesOfProfile(p, cls, who)
    IN  CASE cls = "ThemeCompound" -> BuildCompound(h, x, conf, nmr)
          [] cls = "Cond" -> BuildCond(h, x, conf, nmr)
          [] cls = "Prop" -> BuildProp(h, x, conf, nmr)
          [] cls = "Apparatus" -> BuildApparatus(h, x, conf, nmr)

NoCall == [op |-> "init", self |-> 0, other |-> 0, d |-> 0, strict |-> FALSE, ret |-> "none"]

\* the state in which A (of class ca, from xa) and B (of class cb, from xb) exist
Start(ca, xa, cb, xb, p) ==
    LET h1 == Build(EmptyHeap, ca, xa, p, "A")
        h2 == Build(h1, cb, xb, p, "B")
    IN  /\ heap = h2
        /\ recA = Top(h1)
        /\ others = <<Top(h2)>>
        /\ models = <<>>
        /\ pre = [heap |-> h2, models |-> <<>>]
        /\ last = NoCall
        /\ steps = 0
        /\ AuxInit

Init ==
    \E p \in Profiles :
        \/ \E xa \in FlatPropInputs, xb \in FlatPropInputs : Start("Prop", xa, "Prop", xb, p)
        \/ \E xa \in NestedPropInputs, xb \in NestedPropInputs : Start("Prop", xa, "Prop", xb, p)
        \/ \E xa \in NestedPropInputs \cup FlatPropInputs :
              \/ \E xb \in CompoundInputs : Start("Prop", xa, "ThemeCompound", xb, p)
              \/ \E xb \in CondInputs : Start("Prop", xa, "Cond", xb, p)
              \/ \E xb \in ApparatusInputs : Start("Prop", xa, "Apparatus", xb, p)
        \/ \E xa \in CompoundInputs, xb \in CompoundInputs :
              Start("ThemeCompound", xa, "ThemeCompound", xb, p)
        \/ \E xa \in CondInputs :
              \/ \E xb \in CondInputs : Start("Cond", xa, "Cond", xb, p)
              \/ \E xb \in CompoundInputs : Start("Cond", xa, "ThemeCompound", xb, p)
              \/ \E xb \in ApparatusInputs : Start("Cond", xa, "Apparatus", xb, p)
        \/ \E xa \in CompoundInputs, xb \in CondInputs :
              Start("ThemeCompound", xa, "Cond", xb, p)

Distances == 0..MaxDist

Call(op, self, other, d, strict, ret) ==
    [op |-> op, self |-> self, other |-> other, d |-> d, strict |-> strict, ret |-> ret]

\* A.merge_contextual(B, d)
MergeContextual ==
    /\ last.op = "init"
    /\ models = <<>>
    /\ Len(others) = 1
    /\ \E d \in Distances :
          LET r == merge_contextual(heap, recA, recB, d)
          IN  /\ heap' = r.h
              /\ last' = Call("merge_contextual", recA, recB, d, FALSE, r.ret)
    /\ pre' = [heap |-> heap, models |-> models]
    /\ steps' = steps + 1
    /\ UNCHANGED <<recA, others, models, aux>>

\* A.merge_all(B, distance=d)
MergeAll ==
    /\ last.op = "init"
    /\ models = <<>>
    /\ Len(others) = 1
    /\ \E d \in Distances :
          LET r == merge_all(heap, recA, recB, d)
          IN  /\ heap' = r.h
              /\ last' = Call("merge_all", recA, recB, d, FALSE, r.ret)
    /\ pre' = [heap |-> heap, models |-> models]
    /\ steps' = steps + 1
    /\ UNCHANGED <<recA, others, models, aux>>

\* A.is_superset(B)
IsSuperset ==
    /\ last.op = "init"
    /\ models = <<>>
    /\ Len(others) = 1
    /\ last' = Call("is_superset", recA, recB, 0, FALSE,
                    IF is_superset(heap, recA, recB) THEN "True" ELSE "False")
    /\ pre' = [heap |-> heap, models |-> models]
    /\ steps' = steps + 1
    /\ UNCHANGED <<heap, recA, others, models, aux>>

\* A.is_subset(B)
IsSubset ==
    /\ last.op = "init"
    /\ models = <<>>
    /\ Len(others) = 1
    /\ last' = Call("is_subset", recA, recB, 0, FALSE,
                    IF is_subset(heap, recA, recB) THEN "True" ELSE "False")
    /\ pre' = [heap |-> heap, models |-> models]
    /\ steps' = steps + 1
    /\ UNCHANGED <<heap, recA, others, models, aux>>

Next == MergeContextual \/ MergeAll \/ IsSuperset \/ IsSubset

Spec == Init /\ [][Next]_vars

----------------------------------------------------------------------------
(* Sequences of merges and cleans on one record *)

\* the records the sequences start from: a property record with or without
\* its binding compound and with or without a nested condition
SeqPropInputs ==
    [specifier : {<<"tau">>}, value : {<<>>}, units : {<<>>, <<"ns">>}, note : {<<>>},
     compound : {<<>>, <<[labels |-> {"1"}, roles |-> {}]>>},
     cond : {<<>>, <<[name |-> <<"water">>, compound |-> <<>>]>>,
             <<[name |-> <<>>, compound |-> <<[labels |-> {"2"}, roles |-> {}]>>]>>},
     conds : {<<>>}]

\* the records merged into it, as <<class, input>>
SeqOthers ==
    {<<"ThemeCompound", [labels |-> {"1"}, roles |-> {}]>>,
     <<"ThemeCompound", [labels |-> {}, roles |-> {"product"}]>>,
     <<"Cond", [name |-> <<"water">>, compound |-> <<[labels |-> {"2"}, roles |-> {}]>>]>>,
     <<"Prop", [specifier |-> <<"tau">>, value |-> <<1>>, units |-> <<"ns">>, note |-> <<>>,
                compound |-> <<[labels |-> {"2"}, roles |-> {}]>>, cond |-> <<>>,
                conds |-> <<>>]>>,
     <<"Prop", [specifier |-> <<"tau">>, value |-> <<0>>, units |-> <<>>, note |-> <<>>,
                compound |-> <<>>, cond |-> <<>>, conds |-> <<>>]>>}

InitSeq ==
    \E xa \in SeqPropInputs, b \in SeqOthers, c \in SeqOthers :
        LET h1 == Build(EmptyHeap, "Prop", xa, "plain", "A")
            h2 == Build(h1, b[1], b[2], "plain", "B")
            h3 == Build(h2, c[1], c[2], "plain", "B")
        IN  /\ heap = h3
            /\ recA = Top(h1)
            /\ others = <<Top(h2), Top(h3)>>
            /\ models = <<>>
            /\ pre = [heap |-> h3, models |-> <<>>]
            /\ last = NoCall
            /\ steps = 0
            /\ AuxInit

\* the distances of the sequences: the default one and the largest
SeqDistances == {SentenceRange, MaxDist}

\* A.merge_contextual(other, d) for one of the other records
SeqMergeContextual ==
    /\ steps < MaxOps
    /\ last.ret # "raise"
    /\ \E k \in 1..Len(others), d \in SeqDistances :
          LET r == merge_contextual(heap, recA, others[k], d)
          IN  /\ heap' = r.h
              /\ last' = Call("merge_contextual", recA, others[k], d, FALSE, r.ret)
    /\ pre' = [heap |-> heap, models |-> models]
    /\ steps' = steps + 1
    /\ UNCHANGED <<recA, others, models, aux>>

\* A.merge_all(other, distance=d) for one of the other records
SeqMergeAll ==
    /\ steps < MaxOps
    /\ last.ret # "raise"
    /\ \E k \in 1..Len(others), d \in SeqDistances :
          LET r == merge_all(heap, recA, others[k], d)
          IN  /\ heap' = r.h
              /\ last' = Call("merge_all", recA, others[k], d, FALSE, r.ret)
    /\ pre' = [heap |-> heap, models |-> models]
    /\ steps' = steps + 1
    /\ UNCHANGED <<recA, others, models, aux>>

\* A._clean(clean_contextual)
SeqClean ==
    /\ steps < MaxOps
    /\ last.ret # "raise"
    /\ \E cc \in BOOLEAN :
          /\ heap' = clean(heap, recA, cc)
          /\ last' = Call("clean", recA, 0, 0, cc, "None")
    /\ pre' = [heap |-> heap, models |-> models]
    /\ steps' = steps + 1
    /\ UNCHANGED <<recA, others, models, aux>>

NextSeq == SeqMergeContextual \/ SeqMergeAll \/ SeqClean

SpecSeq == InitSeq /\ [][NextSeq]_vars

----------------------------------------------------------------------------
(* ModelLists handed to remove_subsets *)

\* the records a list is drawn from, as <<class, input, confidence>>
ListUniverse ==
    {<<"ThemeCompound", c, conf>> :
        c \in [labels : {{}, {"1"}}, roles : {{}, {"product"}}], conf \in {50, 90}}
    \cup {<<"Apparatus", [name |-> <<"laser">>], conf>> : conf \in {50, 90}}
    \cup {<<"Prop", [specifier |-> <<"tau">>, value |-> v, units |-> <<>>, note |-> <<>>,
                     compound |-> <<>>, cond |-> <<>>, conds |-> <<>>], 90>> :
             v \in {<<0>>, <<1>>}}

RECURSIVE BuildList(_, _, _)
\* the heap with the records of the list xs, from the i-th on, added to h
BuildList(h, xs, i) ==
    IF i > Len(xs) THEN h
    ELSE BuildList(
             CASE xs[i][1] = "ThemeCompound" ->
                      BuildCompound(h, xs[i][2], [x \in {"self"} |-> xs[i][3]], NoDict)
               [] xs[i][1] = "Apparatus" ->
                      BuildApparatus(h, xs[i][2], [x \in {"self"} |-> xs[i][3]], NoDict)
               [] xs[i][1] = "Prop" ->
                      BuildProp(h, xs[i][2], [x \in {"self"} |-> xs[i][3]], NoDict),
             xs, i + 1)

\* ModelList(*models): every record of the list is an object of its own
InitList ==
    \E n \in 1..MaxList :
        \E xs \in [1..n -> ListUniverse] :
            LET h == BuildList(EmptyHeap, xs, 1)
            IN  /\ heap = h
                /\ recA = 0
                /\ others = <<>>
                /\ models = [i \in 1..n |-> i]
                /\ pre = [heap |-> h, models |-> [i \in 1..n |-> i]]
                /\ last = NoCall
                /\ steps = 0
                /\ AuxInit

\* models.remove_subsets(strict)
RemoveSubsets ==
    /\ last.op = "init"
    /\ models # <<>>
    /\ \E strict \in BOOLEAN :
          /\ models' = remove_subsets(heap, models, strict)
          /\ last' = Call("remove_subsets", 0, 0, 0, strict, "None")
    /\ pre' = [heap |-> heap, models |-> models]
    /\ steps' = steps + 1
    /\ UNCHANGED <<heap, recA, others, aux>>

NextList == RemoveSubsets

SpecList == InitList /\ [][NextList]_vars

----------------------------------------------------------------------------
(* serialize and deserialize *)

\* Serialized values are Python strings and floats (StrV, FltV), lists and
\* dictionaries; a dictionary is the sequence of its <<key, value>> items in
\* insertion order.
WList(l) == [k |-> "wlist", v |-> l]
Dict(items) == [k |-> "dict", v |-> items]

\* the strings that occur in set fields, in the order sorted() gives them
StrOrder == <<"1", "2", "product">>
Sorted(S) == SelectSeq(StrOrder, LAMBDA x : x \in S)

RECURSIVE serialize(_, _)
RECURSIVE SerializeFrom(_, _, _)

\* field.serialize(value) of BaseType, ModelType, ListType and SetType, for a
\* value that is not None
SerializeField(h, fd, v) ==
    CASE fd.kind = "model" -> serialize(h, v.v)
      [] fd.kind = "list" ->
            IF v.v = <<>> THEN None
            ELSE WList([i \in 1..Len(v.v) |-> serialize(h, v.v[i])])
      [] fd.kind = "set" ->
            IF v.v = {} THEN None
            ELSE WList([i \in 1..Len(Sorted(v.v)) |-> StrV(Sorted(v.v)[i])])
      [] OTHER -> v

\* what serialize puts into data for one field: <<>> when the field is skipped
SerializedItem(f, w) ==
    IF w \in {None, StrV(""), WList(<<>>)} THEN <<>> ELSE <<<<f, w>>>>

\* BaseModel.serialize: the loop over the fields from index i on; no field of
\* the schema has null=True
SerializeFrom(h, r, i) ==
    IF i > Len(FieldOrder[ClassOf(h, r)]) THEN <<>>
    ELSE SerializedItem(
             FieldOrder[ClassOf(h, r)][i],
             IF GetAttr(h, r, FieldOrder[ClassOf(h, r)][i]) = None THEN None
             ELSE SerializeField(h, Fields[ClassOf(h, r)][FieldOrder[ClassOf(h, r)][i]],
                                 GetAttr(h, r, FieldOrder[ClassOf(h, r)][i])))
         \o SerializeFrom(h, r, i + 1)

\* BaseModel.serialize(): {class name: data}
serialize(h, r) == Dict(<<<<ClassOf(h, r), Dict(SerializeFrom(h, r, 1))>>>>)

----------------------------------------------------------------------------
(* Assignment and keypath access: __set__, _get_item, __setitem__ *)

\* an exception of the named type, where a value or a return value is expected
Raise(e) == [k |-> "raise", v |-> e]
Raised(x) == x.k = "raise"

\* the strings float() converts, with the number it gives
Numeric == [s \in {"1"} |-> 1]
\* str() of the floats of the model
StrOfFlt == [n \in {0, 1} |-> IF n = 0 THEN "0.0" ELSE "1.0"]

\* the characters of the strings of the model: what iterating over one gives
Letters == [s \in {"film", "1"} |-> IF s = "1" THEN <<"1">> ELSE <<"f", "i", "l", "m">>]

\* what __set__ stores for the assigned value v: process() of StringType,
\* FloatType and ModelType, ListType.__set__ and SetType.__set__; Raise(e) when
\* the conversion raises.  A list or set field iterates over the value: over
\* the characters of a string, and over the field names of a record
\* (BaseModel.__iter__); ModelType.process turns what is no record into None.
Stored(h, fd, v) ==
    CASE fd.kind = "str" ->
            (CASE v.k \in {"None", "str"} -> v
               [] v.k = "flt" -> StrV(StrOfFlt[v.v]))
      [] fd.kind = "flt" ->
            (CASE v.k \in {"None", "flt"} -> v
               [] v.k = "str" -> IF v.v \in DOMAIN Numeric THEN FltV(Numeric[v.v])
                                 ELSE Raise("ValueError")
               [] OTHER -> Raise("TypeError"))
      [] fd.kind = "model" -> Process(h, fd, v)
      [] fd.kind = "list" ->
            (CASE v.k \in {"None", "list"} -> Process(h, fd, v)
               [] v.k = "wlist" -> ListV([i \in 1..Len(v.v) |-> 0])
               [] v.k = "str" -> ListV([i \in 1..Len(Letters[v.v]) |-> 0])
               [] v.k = "set" -> ListV([i \in 1..Cardinality(v.v) |-> 0])
               [] v.k = "obj" -> ListV([i \in 1..Len(FieldOrder[ClassOf(h, v.v)]) |-> 0])
               [] v.k = "flt" -> Raise("TypeError"))
      [] fd.kind = "set" ->
            (CASE v.k \in {"None", "set"} -> v
               [] v.k = "wlist" -> SetV({v.v[i].v : i \in 1..Len(v.v)})
               [] v.k = "str" -> SetV({Letters[v.v][i] : i \in 1..Len(Letters[v.v])})
               [] v.k = "obj" -> SetV(FieldNames(ClassOf(h, v.v)))
               [] v.k = "flt" -> Raise("TypeError"))

\* setattr(target, name, value): the field's __set__ when the target is a record
\* and name one of its fields, a plain instance attribute when name is no field,
\* AttributeError when the target is no record
Assign(h, target, name, v) ==
    IF target.k # "obj" THEN Res(h, Raise("AttributeError"))
    ELSE IF name \notin FieldNames(ClassOf(h, target.v))
    THEN Res([h EXCEPT !.objs[target.v].extra = @ \cup {name}], None)
    ELSE IF Raised(Stored(h, Fields[ClassOf(h, target.v)][name], v))
    THEN Res(h, Stored(h, Fields[ClassOf(h, target.v)][name], v))
    ELSE Res([h EXCEPT !.cells[CellOf(h, target.v)].vals[name] =
                  Stored(h, Fields[ClassOf(h, target.v)][name], v)], None)

\* the values BaseModel.__init__ sets when no keyword is given
DefaultVals(cls) == [f \in FieldNames(cls) |-> Fields[cls][f].default]

\* cls(): a new record with the defaults
NewDefault(h, cls) == NewRec(h, cls, DefaultVals(cls), NoDict, NoDict)

RECURSIVE get_item(_, _, _, _)
\* what _get_item does once the attribute is known (and, with create_defaults,
\* created): return it, or go on with the rest of the keypath
GetRest(h, a, key, create) ==
    IF Len(key) = 1 THEN Res(h, a)
    ELSE IF a.k = "list"
    THEN IF a.v = <<>> THEN Res(h, Raise("IndexError"))
         ELSE IF a.v[1] = 0 THEN Res(h, Raise("KeyError"))
         ELSE get_item(h, a.v[1], Tail(key), create)
    ELSE IF a.k = "obj" THEN get_item(h, a.v, Tail(key), create)
    ELSE Res(h, Raise("KeyError"))

\* BaseModel._get_item(key, create_defaults) for a keypath given as a list
get_item(h, r, key, create) ==
    LET cls == ClassOf(h, r)
    IN  IF key[1] \notin FieldNames(cls) THEN Res(h, Raise("KeyError"))
        ELSE IF /\ create
                /\ \/ GetAttr(h, r, key[1]) = None
                   \/ GetAttr(h, r, key[1]) = ListV(<<>>) /\ Len(key) # 1
        THEN IF Fields[cls][key[1]].kind = "model"
             THEN GetRest(SetAttr(NewDefault(h, Fields[cls][key[1]].model), r, key[1],
                                  ObjV(NewRef(h))),
                          ObjV(NewRef(h)), key, create)
             ELSE IF Fields[cls][key[1]].kind = "list"
             THEN GetRest(SetAttr(NewDefault(h, Fields[cls][key[1]].model), r, key[1],
                                  ListV(<<NewRef(h)>>)),
                          ListV(<<NewRef(h)>>), key, create)
             ELSE Res(h, Raise("TypeError"))
        ELSE GetRest(h, GetAttr(h, r, key[1]), key, create)

\* self[key]
getitem(h, r, key) == get_item(h, r, key, FALSE)

Front(key) == SubSeq(key, 1, Len(key) - 1)

\* __setitem__: the target found, the setattr on it
SetOnTarget(t, key, v) ==
    IF Raised(t.ret) THEN t
    ELSE IF t.ret.k = "list"
    THEN Assign(t.h, IF t.ret.v[1] = 0 THEN None ELSE ObjV(t.ret.v[1]), key[Len(key)], v)
    ELSE Assign(t.h, t.ret, key[Len(key)], v)

\* __setitem__: the second look for the target, taken when the first gave an
\* empty list; probe is what self._get_item(key, create_defaults=True) gave
SetAfterProbe(probe, r, key, v) ==
    IF Raised(probe.ret) THEN probe
    ELSE SetOnTarget(get_item(probe.h, r, Front(key), TRUE), key, v)

\* __setitem__: what follows the first look for the target
SetAfterLook(t, r, key, v) ==
    IF ~Raised(t.ret) /\ t.ret = ListV(<<>>)
    THEN SetAfterProbe(get_item(t.h, r, key, TRUE), r, key, v)
    ELSE SetOnTarget(t, key, v)

\* BaseModel.__setitem__(key, value) for a keypath given as a list: the heap it
\* leaves, and None or the exception it raises
setitem(h, r, key, v) ==
    IF key[1] \notin FieldNames(ClassOf(h, r)) THEN Res(h, Raise("KeyError"))
    ELSE IF Len(key) = 1 THEN Assign(h, ObjV(r), key[1], v)
    ELSE SetAfterLook(get_item(h, r, Front(key), TRUE), r, key, v)

----------------------------------------------------------------------------
(* deserialize *)

\* [(key + sub_key, sub_value) for (sub_key, sub_value) in flattened_for_key]
Prefixed(key, sub) == [i \in 1..Len(sub) |-> <<<<key>> \o sub[i][1], sub[i][2]>>]

RECURSIVE flatten_serialized(_)
\* BaseModel._flatten_serialized(serialized), on the items of the dictionary
flatten_serialized(items) ==
    IF items = <<>> THEN <<>>
    ELSE (IF Head(items)[2].k = "dict"
          THEN Prefixed(Head(items)[1], flatten_serialized(Head(items)[2].v))
          ELSE <<<<<<Head(items)[1]>>, Head(items)[2]>>>>)
         \o flatten_serialized(Tail(items))

\* key_el.lower() != key_el: the names of the schema that hold a capital letter
HasCapital(name) == name \in Classes \cup {"label_Juraj"}

\* BaseModel._clean_key(key)
clean_key(key) == SelectSeq(key, LAMBDA e : ~HasCapital(e))

\* cleaned_serialized
Cleaned(flat) == [i \in 1..Len(flat) |-> <<clean_key(flat[i][1]), flat[i][2]>>]

RECURSIVE deserialize(_, _, _)
RECURSIVE DeserializeFrom(_, _, _, _, _)
RECURSIVE DeserializeAll(_, _, _, _, _)
RECURSIVE DeserializeNext(_, _, _, _, _)
RECURSIVE DeserializeStep(_, _, _, _, _)

\* [model.deserialize(val) for val in value], from the j-th element on; acc
\* holds the records made so far
DeserializeAll(h, model, vals, j, acc) ==
    IF j > Len(vals) THEN Res(h, ListV(acc))
    ELSE DeserializeNext(deserialize(h, model, vals[j]), model, vals, j, acc)

\* the list goes on with the record one element gave
DeserializeNext(one, model, vals, j, acc) ==
    IF Raised(one.ret) THEN one
    ELSE DeserializeAll(one.h, model, vals, j + 1, Append(acc, one.ret.v))

\* the loop of deserialize goes on after record[key] = value
DeserializeStep(set, rec, cls, cleaned, i) ==
    IF Raised(set.ret) THEN set
    ELSE DeserializeFrom(set.h, rec, cls, cleaned, i + 1)

\* record[key] = value, for the list of records made from a list of dictionaries
DeserializeList(made, rec, key) ==
    IF Raised(made.ret) THEN made ELSE setitem(made.h, rec, key, made.ret)

\* BaseModel.deserialize: the loop over cleaned_serialized from index i on
DeserializeFrom(h, rec, cls, cleaned, i) ==
    IF i > Len(cleaned) THEN Res(h, ObjV(rec))
    ELSE IF cleaned[i][1] = <<>> THEN Res(h, Raise("IndexError"))
    ELSE IF cleaned[i][1][1] \notin FieldNames(cls) THEN Res(h, Raise("KeyError"))
    ELSE IF Fields[cls][cleaned[i][1][1]].kind = "list"
    THEN DeserializeStep(
             DeserializeList(
                 DeserializeAll(h, Fields[cls][cleaned[i][1][1]].model,
                                cleaned[i][2].v, 1, <<>>),
                 rec, cleaned[i][1]),
             rec, cls, cleaned, i)
    ELSE DeserializeStep(setitem(h, rec, cleaned[i][1], cleaned[i][2]),
                         rec, cls, cleaned, i)

\* cls.deserialize(serialized): the heap with the new record, and the record
\* or the exception raised
deserialize(h, cls, serialized) ==
    DeserializeFrom(NewDefault(h, cls), NewRef(h), cls,
                    Cleaned(flatten_serialized(serialized.v)), 1)

----------------------------------------------------------------------------
(* Records sent through serialize and deserialize *)

WireCompounds ==
    {[labels |-> {}, roles |-> {}], [labels |-> {"2"}, roles |-> {}],
     [labels |-> {"1", "2"}, roles |-> {"product"}]}

WireConds == [name : Opt({"water"}), compound : Opt(WireCompounds)]

WireProps ==
    [specifier : {<<"tau">>}, value : Opt({0, 1}), units : {<<>>}, note : {<<>>},
     compound : Opt(WireCompounds \ {[labels |-> {"2"}, roles |-> {}]}),
     cond : {<<>>, <<[name |-> <<"water">>, compound |-> <<>>]>>,
             <<[name |-> <<>>, compound |-> <<[labels |-> {"2"}, roles |-> {}]>>]>>},
     conds : {<<>>, <<ListedCond>>}]

WireCNLabels == [label_Juraj : Opt({"Fe-O"}), compound : Opt(WireCompounds)]

\* the records, as <<class, input>>
WireRecords ==
    {<<"ThemeCompound", x>> : x \in WireCompounds}
    \cup {<<"Cond", x>> : x \in WireConds}
    \cup {<<"Prop", x>> : x \in WireProps}
    \cup {<<"CNLabel", x>> : x \in WireCNLabels}

\* the state in which the record built from x is the only record
Alone(x) ==
    LET h == IF x[1] = "CNLabel" THEN BuildCNLabel(EmptyHeap, x[2], NoDict, NoDict)
             ELSE Build(EmptyHeap, x[1], x[2], "plain", "A")
    IN  /\ heap = h
        /\ recA = Top(h)
        /\ others = <<>>
        /\ models = <<>>
        /\ pre = [heap |-> h, models |-> <<>>]
        /\ last = NoCall
        /\ steps = 0
        /\ AuxInit

InitWire == \E x \in WireRecords : Alone(x)

\* R.serialize()
Serialize ==
    /\ last.op = "init"
    /\ wire' = serialize(heap, recA)
    /\ last' = Call("serialize", recA, 0, 0, FALSE, "dict")
    /\ pre' = [heap |-> heap, models |-> models]
    /\ steps' = steps + 1
    /\ UNCHANGED <<heap, recA, others, models, inferrer, calls, grammar>>

\* what deserialize gave: the new record is kept in others
Deserialized(r) ==
    /\ heap' = r.h
    /\ others' = IF Raised(r.ret) THEN <<>> ELSE <<r.ret.v>>
    /\ last' = Call("deserialize", recA, 0, 0, FALSE,
                    IF Raised(r.ret) THEN "raise" ELSE "record")

\* type(R).deserialize(the dictionary serialize returned)
Deserialize ==
    /\ last.op = "serialize"
    /\ Deserialized(deserialize(heap, ClassOf(heap, recA), wire))
    /\ pre' = [heap |-> heap, models |-> models]
    /\ steps' = steps + 1
    /\ UNCHANGED <<recA, models, aux>>

NextWire == Serialize \/ Deserialize

SpecWire == InitWire /\ [][NextWire]_vars

----------------------------------------------------------------------------
(* Records read and written through keypaths *)

ItemProps ==
    [specifier : {<<"tau">>}, value : Opt({1}), units : {<<>>}, note : {<<>>},
     compound : Opt({[labels |-> {"1"}, roles |-> {}]}),
     cond : {<<>>, <<[name |-> <<"water">>, compound |-> <<>>]>>,
             <<[name |-> <<>>, compound |-> <<[labels |-> {"2"}, roles |-> {}]>>]>>},
     conds : {<<>>, <<ListedCond>>}]

\* the record handed over as a value: a compound or an apparatus
ItemOthers ==
    {<<"ThemeCompound", [labels |-> {"2"}, roles |-> {}]>>,
     <<"Apparatus", [name |-> <<"laser">>]>>}

InitItem ==
    \E xa \in ItemProps, b \in ItemOthers :
        LET h1 == Build(EmptyHeap, "Prop", xa, "plain", "A")
            h2 == Build(h1, b[1], b[2], "plain", "B")
        IN  /\ heap = h2
            /\ recA = Top(h1)
            /\ others = <<Top(h2)>>
            /\ models = <<>>
            /\ pre = [heap |-> h2, models |-> <<>>]
            /\ last = NoCall
            /\ steps = 0
            /\ AuxInit

\* the names keypaths are made of: fields of the schema, and one that is none
KeyNames == {"value", "compound", "cond", "conds", "labels", "bogus"}

Keypaths == UNION {[1..n -> KeyNames] : n \in 1..MaxKey}

\* the values assigned: None, a string that is no number, a string that is one,
\* a float, a set, and the other record
ItemValues == {None, StrV("film"), StrV("1"), FltV(0), SetV({"1"}), ObjV(recB)}

\* a dictionary-style call: the keypath, the value assigned (None for a read),
\* and the value returned or the exception raised
Access(op, self, key, v, ret) ==
    [op |-> op, self |-> self, key |-> key, value |-> v, ret |-> ret]

\* the state a read or write leaves
Accessed(op, key, v, r) ==
    /\ heap' = r.h
    /\ last' = Access(op, recA, key, v, r.ret)

\* A[key]
GetItem ==
    /\ last.op = "init"
    /\ \E key \in Keypaths : Accessed("getitem", key, None, getitem(heap, recA, key))
    /\ pre' = [heap |-> heap, models |-> models]
    /\ steps' = steps + 1
    /\ UNCHANGED <<recA, others, models, aux>>

\* A[key] = v
SetItem ==
    /\ last.op = "init"
    /\ \E key \in Keypaths, v \in ItemValues :
          Accessed("setitem", key, v, setitem(heap, recA, key, v))
    /\ pre' = [heap |-> heap, models |-> models]
    /\ steps' = steps + 1
    /\ UNCHANGED <<recA, others, models, aux>>

NextItem == GetItem \/ SetItem

SpecItem == InitItem /\ [][NextItem]_vars

----------------------------------------------------------------------------
(* Records asked for their total confidence *)

ScoredProps ==
    [specifier : Opt({"tau"}), value : Opt({1}), units : Opt({"ns"}), note : {<<>>},
     compound : {<<>>},
     cond : {<<>>, <<[name |-> <<>>, compound |-> <<>>]>>,
             <<[name |-> <<"water">>, compound |-> <<>>]>>},
     conds : {<<>>}]

ScoredSamples ==
    [name : Opt({"s1"}),
     prop : Opt({p \in ScoredProps : p.value = <<>> /\ p.cond = <<>>})]

\* the _confidences a property record comes with: none, its own, or those of
\* its value and units (set_confidence keeps none for a field that is None)
Scores(p) ==
    {NoDict, [x \in {"self"} |-> 90]}
    \cup (IF p.value # <<>> THEN {[x \in {"value"} |-> 80]} ELSE {})
    \cup (IF p.units # <<>> THEN {[x \in {"units"} |-> 60]} ELSE {})
    \cup (IF p.value # <<>> /\ p.units # <<>>
          THEN {[x \in {"value", "units"} |-> IF x = "value" THEN 80 ELSE 60]} ELSE {})

\* the state in which the record made by build is the only record
Scored(h) ==
    /\ heap = h
    /\ recA = Top(h)
    /\ others = <<>>
    /\ models = <<>>
    /\ pre = [heap |-> h, models |-> <<>>]
    /\ last = NoCall
    /\ steps = 0
    /\ AuxInit

InitScore ==
    \/ \E p \in ScoredProps : \E c \in Scores(p) : Scored(BuildProp(EmptyHeap, p, c, NoDict))
    \/ \E x \in ScoredSamples : \E c \in {NoDict, [y \in {"name"} |-> 70]} :
          (x.name # <<>> \/ c = NoDict) /\ Scored(BuildSample(EmptyHeap, x, c, NoDict))

\* A.total_confidence()
TotalConfidenceOfA ==
    /\ last.op = "init"
    /\ last' = Call("total_confidence", recA, 0, 0, FALSE, total_confidence(heap, recA))
    /\ pre' = [heap |-> heap, models |-> models]
    /\ steps' = steps + 1
    /\ UNCHANGED <<heap, recA, others, models, aux>>

NextScore == TotalConfidenceOfA

SpecScore == InitScore /\ [][NextScore]_vars

----------------------------------------------------------------------------
(* Inferred fields: InferredProperty.__get__ *)

\* what raw_value can hold, and what an inferrer can make of it
RawValues == {None, StrV("1"), StrV("film")}
InferredValues == {None, FltV(0), FltV(1)}

\* new Quantity records, with the inferrer their class was declared with: any
\* pure function of the origin value
InitInfer ==
    \E raw \in RawValues, fn \in [RawValues -> InferredValues] :
        LET h == NewRec(EmptyHeap, "Quantity",
                        [DefaultVals("Quantity") EXCEPT !.raw_value = raw], NoDict, NoDict)
        IN  /\ heap = h
            /\ recA = Top(h)
            /\ others = <<>>
            /\ models = <<>>
            /\ pre = [heap |-> h, models |-> <<>>]
            /\ last = NoCall
            /\ steps = 0
            /\ wire = <<>>
            /\ inferrer = fn
            /\ calls = [f \in DOMAIN InferredFrom["Quantity"] |-> 0]
            /\ cell = <<>>
            /\ yielded = <<>>
            /\ UnitsInit
            /\ SharedInit

\* the value is inferred: the inferrer is called on instance[origin_field], its
\* result is stored with __set__, and returned (the default when it is None)
Inferred(f, result) ==
    /\ heap' = [heap EXCEPT !.cells[CellOf(heap, recA)].vals[f] =
                    Stored(heap, Fields["Quantity"][f], result)]
    /\ calls' = [calls EXCEPT ![f] = @ + 1]
    /\ last' = Access("read", recA, <<f>>, None,
                      IF result = None THEN Fields["Quantity"][f].default ELSE result)

\* A.f for an inferred field f: InferredProperty.__get__
ReadInferred ==
    /\ steps < MaxReads
    /\ \E f \in DOMAIN InferredFrom["Quantity"] :
          IF /\ GetAttr(heap, recA, f) # None
             /\ GetAttr(heap, recA, f) # Fields["Quantity"][f].default
          THEN /\ last' = Access("read", recA, <<f>>, None, GetAttr(heap, recA, f))
               /\ UNCHANGED <<heap, calls>>
          ELSE Inferred(f, inferrer[GetAttr(heap, recA, InferredFrom["Quantity"][f])])
    /\ pre' = [heap |-> heap, models |-> models]
    /\ steps' = steps + 1
    /\ UNCHANGED <<recA, others, models, wire, inferrer, grammar>>

\* A.raw_value = v
SetRaw ==
    /\ steps < MaxReads
    /\ \E v \in RawValues :
          /\ heap' = SetAttr(heap, recA, "raw_value", v)
          /\ last' = Access("setattr", recA, <<"raw_value">>, v, None)
    /\ pre' = [heap |-> heap, models |-> models]
    /\ steps' = steps + 1
    /\ UNCHANGED <<recA, others, models, aux>>

NextInfer == ReadInferred \/ SetRaw

SpecInfer == InitInfer /\ [][NextInfer]_vars

----------------------------------------------------------------------------
(* The table parser of delayed lifetimes: TauDTableParser.
   A cell sentence is a sequence of tokens.  The tokens stand for what the
   regular expressions of the grammar tell apart: "tauP" for a token that
   TauP_specifier matches, "tauD" for one that TauD_specifier matches,
   "lamda" for lamda_pl_specifier, "ns" and "us" for units of time, "145",
   "3100", "5000" for numbers, "-" for a hyphen.  None of them is matched
   by the compound expressions, and no other field of DelayedLifetime has
   a parse expression. *)

TimeUnits == {"ns", "us"}
Numbers == {"145", "3100", "5000"}
NoValues == {"-", "NoValue"}
OpenBrackets == {"[", "("}
CloseBrackets == {"]", ")"}
Separators == {"/", "|"}

\* the result of trying an element at a position: no match, or the position
\* after the match and the named elements it adds to the result tree
NoMatch == [ok |-> FALSE, end |-> 0, out |-> <<>>]
Matched(end, out) == [ok |-> TRUE, end |-> end, out |-> out]
E(tag, text) == [tag |-> tag, text |-> text]

\* the token at position i, "" after the end
TokenAt(t, i) == IF i \in 1..Len(t) THEN t[i] ELSE ""

\* Optional(e): what e matched, or nothing at i
Optional(m, i) == IF m.ok THEN m ELSE Matched(i, <<>>)

\* a + b, where b is tried after a
And(m, b(_)) ==
    IF ~m.ok THEN NoMatch
    ELSE LET n == b(m.end)
         IN  IF n.ok THEN Matched(n.end, m.out \o n.out) ELSE NoMatch

\* e.hide(): matches as e does and leaves nothing in the result
Hide(m) == IF m.ok THEN Matched(m.end, <<>>) ELSE NoMatch

\* W(w), or a regular expression matching the tokens of S, not named
Word(t, i, S) == IF TokenAt(t, i) \in S THEN Matched(i + 1, <<>>) ELSE NoMatch

\* unit_element: optional hidden bracket, a unit of time, optional hidden
\* bracket, merged and named raw_units
unit_element(t, i) ==
    LET a == IF TokenAt(t, i) \in OpenBrackets THEN i + 1 ELSE i
    IN  IF TokenAt(t, a) \in TimeUnits
        THEN Matched(IF TokenAt(t, a + 1) \in CloseBrackets THEN a + 2 ELSE a + 1,
                     <<E("raw_units", t[a])>>)
        ELSE NoMatch

\* value_element() | no_value_element, named raw_value
value_element(t, i) ==
    IF TokenAt(t, i) \in Numbers \cup NoValues
    THEN Matched(i + 1, <<E("raw_value", t[i])>>)
    ELSE NoMatch

\* (value_element() | no_value_element) + Optional(unit_element)
ValueAndUnit(t, i) ==
    And(value_element(t, i), LAMBDA j : Optional(unit_element(t, j), j))

\* (W("/") | W("|")) + a value with its optional unit
NextValue(t, i) ==
    And(Word(t, i, Separators), LAMBDA j : ValueAndUnit(t, j))

\* value_phrase: two values between separators, and an optional third
value_phrase(t, i) ==
    And(And(ValueAndUnit(t, i), LAMBDA j : NextValue(t, j)),
        LAMBDA j : Optional(NextValue(t, j), j))

\* (unit_element + W("/") + unit_element) | unit_element
UnitOrUnits(t, i) ==
    LET two == And(And(unit_element(t, i), LAMBDA j : Word(t, j, {"/"})),
                   LAMBDA j : unit_element(t, j))
    IN  IF two.ok THEN two ELSE unit_element(t, i)

\* the first alternative of specifier: the hidden prompt part, then the
\* delayed specifier with its optional units
PromptAndDelayed(t, i) ==
    And(And(And(Hide(And(And(Word(t, i, {"tauP"}),
                             LAMBDA j : Optional(unit_element(t, j), j)),
                         LAMBDA j : Word(t, j, {"/"}))),
                LAMBDA j : IF TokenAt(t, j) = "tauD"
                           THEN Matched(j + 1, <<E("specifier", "tauD")>>)
                           ELSE NoMatch),
            LAMBDA j : Optional(Word(t, j, {"/"}), j)),
        LAMBDA j : Optional(UnitOrUnits(t, j), j))

\* the second alternative of specifier: an emission wavelength with the
\* delayed lifetime in brackets
WavelengthAndDelayed(t, i) ==
    And(And(And(And(And(And(And(Word(t, i, {"lamda"}),
                                LAMBDA j : Optional(Word(t, j, {"/"}), j)),
                            LAMBDA j : Optional(Word(t, j, OpenBrackets), j)),
                        LAMBDA j : Word(t, j, {"nm"})),
                    LAMBDA j : Optional(Word(t, j, CloseBrackets), j)),
                LAMBDA j : Word(t, j, OpenBrackets)),
            LAMBDA j : IF TokenAt(t, j) = "tauD"
                       THEN Matched(j + 1, <<E("specifier", "tauD")>>)
                       ELSE NoMatch),
        LAMBDA j : And(Optional(Word(t, j, {"/"}), j), LAMBDA k : unit_element(t, k)))

specifier(t, i) ==
    LET one == PromptAndDelayed(t, i)
    IN  IF one.ok THEN one ELSE WavelengthAndDelayed(t, i)

\* create_entities_list(entities): labels | specifier | value_phrase | chem_name,
\* where labels and chem_name match none of the tokens
combined_entities(t, i) ==
    LET s == specifier(t, i)
    IN  IF s.ok THEN s ELSE value_phrase(t, i)

\* root: OneOrMore(combined_entities + Optional(SkipTo(combined_entities))),
\* scanned over the sentence from position i: every match of the entities,
\* from left to right, tokens matching none skipped
RECURSIVE root_phrase(_, _)
root_phrase(t, i) ==
    IF i > Len(t) THEN <<>>
    ELSE LET m == combined_entities(t, i)
         IN  IF m.ok THEN m.out \o root_phrase(t, m.end)
             ELSE root_phrase(t, i + 1)

\* _get_data_for_field(result, field_name, True): the texts of the elements
\* named field_name, in document order
RECURSIVE get_data_for_field(_, _)
get_data_for_field(result, field_name) ==
    IF result = <<>> THEN <<>>
    ELSE (IF Head(result).tag = field_name THEN <<Head(result).text>> ELSE <<>>)
         \o get_data_for_field(Tail(result), field_name)

\* first(el) and last(el)
FirstOf(el) == IF Len(el) > 0 THEN el[1] ELSE "None"
LastOf(el) == IF Len(el) > 0 THEN el[Len(el)] ELSE "None"

\* interpret: the records yielded for a result.  specifier is required and
\* not contextual: without it the record is built and not yielded
interpret(result) ==
    IF result = <<>> THEN <<>>
    ELSE LET rec == [raw_value |-> LastOf(get_data_for_field(result, "raw_value")),
                     raw_units |-> LastOf(get_data_for_field(result, "raw_units")),
                     specifier |-> FirstOf(get_data_for_field(result, "specifier"))]
         IN  IF rec.specifier = "None" THEN <<>> ELSE <<rec>>

\* how a unit is written after a specifier or a value
WrittenUnits == {<<>>, <<"ns">>, <<"[", "us", "]">>}

\* headers naming a prompt and a delayed lifetime separated by a slash, each
\* with or without its unit, or with the units of both at the end
PromptDelayedHeaders ==
    {<<"tauP">> \o up \o <<"/", "tauD">> \o ud : up \in WrittenUnits, ud \in WrittenUnits}
    \cup {<<"tauP", "/", "tauD", "[", "ns", "/", "us", "]">>}

\* a header naming an emission wavelength with the delayed lifetime in brackets
WavelengthHeaders == {<<"lamda", "/", "nm", "(", "tauD", "[", "us", "]", ")">>}

\* data cells of MaxValues slash-delimited values at most: the first is 145,
\* the second 3100 or a hyphen, the third 5000
TwoValues ==
    {<<"145">> \o u1 \o <<"/", v2>> \o u2 :
        u1 \in WrittenUnits, v2 \in {"3100", "-"}, u2 \in WrittenUnits}
DataCells ==
    TwoValues
    \cup (IF MaxValues >= 3
          THEN {c \o <<"/", "5000">> \o u3 : c \in TwoValues, u3 \in WrittenUnits}
          ELSE {})

\* the token stream of a cell: its data and its header, in either order
Sentence(c) == IF c.data_first THEN c.data \o c.header ELSE c.header \o c.data

InitTable ==
    /\ heap = EmptyHeap
    /\ recA = 0
    /\ others = <<>>
    /\ models = <<>>
    /\ pre = [heap |-> EmptyHeap, models |-> <<>>]
    /\ last = NoCall
    /\ steps = 0
    /\ wire = <<>>
    /\ inferrer = <<>>
    /\ calls = <<>>
    /\ cell \in [header : PromptDelayedHeaders \cup WavelengthHeaders,
                 data : DataCells,
                 data_first : BOOLEAN]
    /\ yielded = <<>>
    /\ UnitsInit
    /\ SharedInit

\* parse_cell: the root phrase is scanned over the cell's tokens and the
\* result interpreted
ParseCell ==
    /\ last.op = "init"
    /\ yielded' = interpret(root_phrase(Sentence(cell), 1))
    /\ last' = Call("parse_cell", 0, 0, 0, FALSE, "records")
    /\ steps' = steps + 1
    /\ UNCHANGED <<heap, recA, others, models, pre, wire, inferrer, calls, cell, units, shared>>

NextTable == ParseCell

SpecTable == InitTable /\ [][NextTable]_vars

----------------------------------------------------------------------------
(* construct_unit_element(dimensions, max_power) *)

\* the values handed in as max_power: None, integers, booleans (which are
\* integers in Python: True is 1 and False is 0), a float and a string
IntPower(n) == [t |-> "int", v |-> n]
MaxPowers ==
    {[t |-> "None", v |-> 0], [t |-> "float", v |-> 3], [t |-> "str", v |-> 3],
     [t |-> "bool", v |-> 0], [t |-> "bool", v |-> 1]}
    \cup {IntPower(n) : n \in (0 - MaxBelowZero)..MaxPower}

\* the dimensions handed in: None, dimensions without units, and time
Dimensions == {"None", "Dimensionless", "Time"}

\* the powers the element accepts on a unit: any number (\d+), or one digit
\* of [2-max_power]
AnyPower == {"any"}
Element(powers) == [k |-> "element", powers |-> powers]

construct_unit_element(dimensions, max_power) ==
    IF dimensions \in {"None", "Dimensionless"} THEN [k |-> "None"]
    ELSE IF max_power.t = "None" THEN Element(AnyPower)
    ELSE IF max_power.t \notin {"int", "bool"} THEN Raise("TypeError")
    ELSE IF max_power.v <= 2 THEN Raise("ValueError")
    ELSE IF max_power.v > 9 THEN Raise("ValueError")
    ELSE Element(2..max_power.v)

InitUnits ==
    /\ heap = EmptyHeap
    /\ recA = 0
    /\ others = <<>>
    /\ models = <<>>
    /\ pre = [heap |-> EmptyHeap, models |-> <<>>]
    /\ last = NoCall
    /\ steps = 0
    /\ wire = <<>>
    /\ inferrer = <<>>
    /\ calls = <<>>
    /\ cell = <<>>
    /\ yielded = <<>>
    /\ args \in [dimensions : Dimensions, max_power : MaxPowers]
    /\ element = <<>>
    /\ SharedInit

\* the grammar of a model is built
ConstructUnitElement ==
    /\ last.op = "init"
    /\ element' = construct_unit_element(args.dimensions, args.max_power)
    /\ last' = Call("construct_unit_element", 0, 0, 0, FALSE, "element")
    /\ steps' = steps + 1
    /\ UNCHANGED <<heap, recA, others, models, pre, wire, inferrer, calls, cell, yielded, args, shared>>

NextUnits == ConstructUnitElement

SpecUnits == InitUnits /\ [][NextUnits]_vars

----------------------------------------------------------------------------
(* What is kept on the model classes: the parse expressions of the fields,
   and the compound names of the current document.
   A parse expression is the sequence of the alternatives of an Or chain;
   an expression declared in the sources is one alternative named after it. *)

CompoundClasses == {"Compound", "ThemeCompound"}
PropertyClasses == {"Temperature", "DelayedLifetime"}

Declared(n) == <<[lit |-> "declared", tokens |-> <<n>>]>>
\* W(t1) + W(t2) + ... when strict, I(t1) + I(t2) + ... otherwise
Literal(strict, tokens) == [lit |-> IF strict THEN "W" ELSE "I", tokens |-> tokens]

\* the fields with a parse expression, as the classes declare them
ParseExpressions ==
    [Compound |-> [names |-> Declared("names_only"),
                   labels |-> Declared("NoMatch"),
                   roles |-> Declared("roles_only")],
     ThemeCompound |-> [names |-> Declared("NoMatch"),
                        labels |-> Declared("NoMatch"),
                        roles |-> Declared("NoMatch")],
     Temperature |-> [specifier |-> Declared("temperature_specifier_expression")],
     DelayedLifetime |-> [specifier |-> Declared("TauD_specifier")]]

\* the updatable flag of the fields of a class
Updatable == [Compound |-> TRUE, ThemeCompound |-> FALSE,
              Temperature |-> TRUE, DelayedLifetime |-> FALSE]

\* current_doc_compound_expressions is declared on Compound; ThemeCompound
\* has the attribute of Compound until it is assigned one of its own
Inherited == <<[lit |-> "inherited", tokens |-> <<>>]>>
Expressions(k, cls) ==
    IF k.cdce[cls] = Inherited THEN k.cdce["Compound"] ELSE k.cdce[cls]

\* the classes as they are imported: cdc is the set current_doc_compound
\* declared on Compound, own the set ThemeCompound has been assigned, as a
\* sequence of one element, and empty while it has none of its own
NewClasses ==
    [exprs |-> ParseExpressions,
     updated |-> [c \in PropertyClasses \cup CompoundClasses |-> FALSE],
     cdc |-> {},
     own |-> <<>>,
     cdce |-> [Compound |-> Declared("NoMatch"), ThemeCompound |-> Inherited]]

\* cls.current_doc_compound
current_doc_compound(k, cls) ==
    IF cls = "ThemeCompound" /\ k.own # <<>> THEN k.own[1] ELSE k.cdc

\* cls.current_doc_compound.add(n) for every n of S: the set is changed in
\* place, for ThemeCompound without a set of its own that of Compound
AddNames(k, cls, S) ==
    IF cls = "ThemeCompound" /\ k.own # <<>>
    THEN [k EXCEPT !.own = <<@[1] \cup S>>]
    ELSE [k EXCEPT !.cdc = @ \cup S]

\* the tokens the declared specifier expressions match
DeclaredMatches ==
    [temperature_specifier_expression |-> {"T"}, TauD_specifier |-> {"tauD"},
     NoMatch |-> {}, names_only |-> {}, roles_only |-> {}]

\* parse_expression.scan(tokens) finds a match
Scans(expr, tokens) ==
    \E i \in 1..Len(expr) :
        IF expr[i].lit = "declared"
        THEN \E j \in 1..Len(tokens) : tokens[j] \in DeclaredMatches[expr[i].tokens[1]]
        ELSE \E j \in 1..Len(tokens) :
                /\ j + Len(expr[i].tokens) - 1 <= Len(tokens)
                /\ \A n \in 1..Len(expr[i].tokens) : tokens[j + n - 1] = expr[i].tokens[n]

\* BaseModel.update for one definition: every updatable field whose
\* expression is found in the definition's tokens gets the specifier as a
\* further alternative
UpdateWith(k, cls, definition, strict) ==
    LET found == {f \in DOMAIN k.exprs[cls] :
                    Updatable[cls] /\ Scans(k.exprs[cls][f], definition.tokens)}
    IN  [k EXCEPT !.exprs[cls] =
                      [f \in DOMAIN @ |->
                          IF f \in found
                          THEN Append(@[f], Literal(strict, <<definition.specifier>>))
                          ELSE @[f]],
                  !.updated[cls] = @ \/ found # {}]

RECURSIVE update(_, _, _, _)
update(k, cls, definitions, strict) ==
    IF definitions = <<>> THEN k
    ELSE update(UpdateWith(k, cls, Head(definitions), strict), cls, Tail(definitions), strict)

\* Compound.update, which ThemeCompound inherits: every label becomes a
\* further alternative of cls.labels.parse_expression
RECURSIVE compound_update(_, _, _, _)
compound_update(k, cls, definitions, strict) ==
    IF definitions = <<>> THEN k
    ELSE compound_update(
            [k EXCEPT !.exprs[cls].labels = Append(@, Literal(strict, <<Head(definitions)>>))],
            cls, Tail(definitions), strict)

\* Compound.update_abbrev: every short form is put before the alternatives
\* of current_doc_compound_expressions
RECURSIVE update_abbrev(_, _, _, _)
update_abbrev(k, cls, definitions, strict) ==
    IF definitions = <<>> THEN k
    ELSE update_abbrev(
            [k EXCEPT !.cdce[cls] = <<Literal(strict, Head(definitions).short)>> \o Expressions(k, cls)],
            cls, Tail(definitions), strict)

\* sorted(cls.current_doc_compound, key=len, reverse=True), for names of
\* different lengths
RECURSIVE Ordered(_)
Ordered(S) ==
    IF S = {} THEN <<>>
    ELSE LET longest == CHOOSE n \in S : \A m \in S : Len(m) <= Len(n)
         IN  <<longest>> \o Ordered(S \ {longest})

\* the alternatives made of the names of a list
RECURSIVE Alternatives(_, _)
Alternatives(names, strict) ==
    IF names = <<>> THEN <<>>
    ELSE <<Literal(strict, Head(names))>> \o Alternatives(Tail(names), strict)

\* construct_ordered_current_doc_compound_expressions
construct_ordered(k, cls, strict) ==
    [k EXCEPT !.cdce[cls] = Declared("NoMatch") \o Alternatives(Ordered(current_doc_compound(k, cls)), strict)]

\* ThemeCompound.name_blocklist, and the names ThemeCompound.update_abbrev adds
name_blocklist == {<<"blocked">>}
Unblocked(definitions) ==
    {definitions[i].short : i \in {j \in 1..Len(definitions) :
        /\ definitions[j].short \notin name_blocklist
        /\ definitions[j].long \notin name_blocklist}}

\* ThemeCompound.update_abbrev
theme_update_abbrev(k, cls, definitions, strict) ==
    construct_ordered(AddNames(k, cls, Unblocked(definitions)), cls, strict)

\* ThemeCompound.update_theme_compound
update_theme_compound(k, cls, record_names, strict) ==
    construct_ordered(AddNames(k, cls, {record_names[i] : i \in 1..Len(record_names)}),
                      cls, strict)

\* the lists of at most MaxDefs elements of S
ListsOf(S) == UNION {[1..n -> S] : n \in 0..MaxDefs}

\* compound names as token tuples, labels, and definitions of specifiers and
\* of abbreviations
Names == {<<"a">>, <<"b", "c">>}
Labels == {"1a", "2b"}
SpecifierDefinitions ==
    {[tokens |-> <<"T", "Tc">>, specifier |-> "Tc"],
     [tokens |-> <<"tauD", "tD">>, specifier |-> "tD"],
     [tokens |-> <<"Tc", "x">>, specifier |-> "x"]}
AbbreviationDefinitions ==
    {[short |-> n, long |-> <<"long">>] : n \in Names \cup name_blocklist}

InitUpdate ==
    /\ heap = EmptyHeap
    /\ recA = 0
    /\ others = <<>>
    /\ models = <<>>
    /\ pre = [heap |-> EmptyHeap, models |-> <<>>]
    /\ last = NoCall
    /\ steps = 0
    /\ wire = <<>>
    /\ inferrer = <<>>
    /\ calls = <<>>
    /\ cell = <<>>
    /\ yielded = <<>>
    /\ UnitsInit
    /\ klass = NewClasses
    /\ procs = <<>>

\* what every update leaves alone, and the call it was
Updated(op) ==
    /\ steps < MaxUpdates
    /\ steps' = steps + 1
    /\ last' = Call(op, 0, 0, 0, FALSE, "None")
    /\ UNCHANGED <<heap, recA, others, models, pre, wire, inferrer, calls, cell, yielded, units, procs>>

\* cls.update(definitions, strict) on a property class
Update ==
    /\ \E cls \in PropertyClasses, definitions \in ListsOf(SpecifierDefinitions), strict \in BOOLEAN :
          klass' = update(klass, cls, definitions, strict)
    /\ Updated("update")

\* cls.update(definitions, strict) on a compound class
CompoundUpdate ==
    /\ \E cls \in CompoundClasses, definitions \in ListsOf(Labels), strict \in BOOLEAN :
          klass' = compound_update(klass, cls, definitions, strict)
    /\ Updated("compound_update")

\* cls.update_abbrev(definitions, strict)
UpdateAbbrev ==
    /\ \E cls \in CompoundClasses, definitions \in ListsOf(AbbreviationDefinitions), strict \in BOOLEAN :
          klass' = IF cls = "ThemeCompound"
                   THEN theme_update_abbrev(klass, cls, definitions, strict)
                   ELSE update_abbrev(klass, cls, definitions, strict)
    /\ Updated("update_abbrev")

\* ThemeCompound.update_theme_compound(record_names, strict)
UpdateThemeCompound ==
    /\ \E record_names \in ListsOf(Names), strict \in BOOLEAN :
          klass' = update_theme_compound(klass, "ThemeCompound", record_names, strict)
    /\ Updated("update_theme_compound")

NextUpdate == Update \/ CompoundUpdate \/ UpdateAbbrev \/ UpdateThemeCompound

SpecUpdate == InitUpdate /\ [][NextUpdate]_vars

----------------------------------------------------------------------------
(* Update calls and sentence scans running at the same time.
   Two threads each make one update call with one definition, a third
   builds the root phrase of a sentence parser, which reads
   current_doc_compound_expressions.  A thread can be interrupted between
   any two reads or writes of a class attribute.  When procs.serialized is
   set the calls are made as the documents are processed: one update at a
   time, and the scan after the updates are complete. *)

Threads == 1..2

\* the update calls a thread can make
UpdateCalls ==
    {[op |-> "update_theme_compound", cls |-> "ThemeCompound", name |-> n] : n \in Names}
    \cup {[op |-> "update_abbrev", cls |-> c, name |-> n] :
             c \in CompoundClasses, n \in Names \cup name_blocklist}

\* a thread before its call: pc is the place in the call, ordered the sorted
\* names and i the place of the loop in them, read the expression last read
NewThread(call) ==
    [op |-> call.op, cls |-> call.cls, name |-> call.name,
     pc |-> "start", ordered |-> <<>>, i |-> 0, read |-> <<>>]

InitDoc ==
    /\ heap = EmptyHeap
    /\ recA = 0
    /\ others = <<>>
    /\ models = <<>>
    /\ pre = [heap |-> EmptyHeap, models |-> <<>>]
    /\ last = NoCall
    /\ steps = 0
    /\ wire = <<>>
    /\ inferrer = <<>>
    /\ calls = <<>>
    /\ cell = <<>>
    /\ yielded = <<>>
    /\ UnitsInit
    /\ klass = NewClasses
    /\ \E serialized \in BOOLEAN, us \in [Threads -> UpdateCalls], cls \in CompoundClasses :
          procs = [serialized |-> serialized,
                   added |-> [c \in CompoundClasses |-> {}],
                   u |-> [p \in Threads |-> NewThread(us[p])],
                   s |-> [cls |-> cls, pc |-> "start", seen |-> <<>>, missing |-> {}]]

\* the names among the alternatives of an expression
NamesIn(expr) == {expr[i].tokens : i \in {j \in 1..Len(expr) : expr[j].lit \in {"W", "I"}}}

\* thread p may take a step: always when the calls are not serialized,
\* otherwise when no other update call is under way
MayStep(p) ==
    /\ procs.u[p].pc # "done"
    /\ procs.serialized =>
          /\ \A q \in Threads \ {p} : procs.u[q].pc \in {"start", "done"}
          /\ procs.s.pc = "start"

\* what a step of an update call leaves alone
Stepped ==
    /\ steps' = steps + 1
    /\ UNCHANGED <<heap, recA, others, models, pre, last, wire, inferrer, calls, cell, yielded, units>>

\* cls.current_doc_compound.add(tuple(tokens)), skipped by update_abbrev for
\* a blocklisted name
AddName ==
    /\ \E p \in Threads :
          LET u == procs.u[p]
              adds == ~(u.op = "update_abbrev" /\ u.name \in name_blocklist)
          IN  /\ MayStep(p)
              /\ u.pc = "start"
              /\ u.cls = "ThemeCompound"
              /\ klass' = AddNames(klass, u.cls, IF adds THEN {u.name} ELSE {})
              /\ procs' = [procs EXCEPT !.u[p].pc = "sort",
                                        !.added[u.cls] = IF adds THEN @ \cup {u.name} ELSE @]
    /\ Stepped

\* ordered_set = sorted(cls.current_doc_compound, ...)
SortNames ==
    /\ \E p \in Threads :
          /\ MayStep(p)
          /\ procs.u[p].pc = "sort"
          /\ procs' = [procs EXCEPT !.u[p].pc = "clear", !.u[p].ordered = Ordered(current_doc_compound(klass, procs.u[p].cls))]
    /\ UNCHANGED klass
    /\ Stepped

\* cls.current_doc_compound_expressions = NoMatch()
ClearExpressions ==
    /\ \E p \in Threads :
          /\ MayStep(p)
          /\ procs.u[p].pc = "clear"
          /\ klass' = [klass EXCEPT !.cdce[procs.u[p].cls] = Declared("NoMatch")]
          /\ procs' = [procs EXCEPT !.u[p].pc = IF procs.u[p].ordered = <<>> THEN "done" ELSE "read",
                                    !.u[p].i = 1]
    /\ Stepped

\* the right-hand side reads cls.current_doc_compound_expressions; in
\* Compound.update_abbrev this is the first step of the call
ReadExpressions ==
    /\ \E p \in Threads :
          LET u == procs.u[p]
          IN  /\ MayStep(p)
              /\ \/ u.pc = "read"
                 \/ u.pc = "start" /\ u.cls = "Compound"
              /\ procs' = [procs EXCEPT !.u[p].pc = "write",
                                        !.u[p].read = Expressions(klass, u.cls)]
    /\ UNCHANGED klass
    /\ Stepped

\* old | new in construct_ordered_current_doc_compound_expressions
ExtendedFromNothing(old, new) == <<new>>
Extended(old, new) == Append(old, new)

\* the assignment stores the alternation made of what was read: the next
\* sorted name after it, or in Compound.update_abbrev the short form before it
WriteExpressions ==
    /\ \E p \in Threads :
          LET u == procs.u[p]
          IN  /\ MayStep(p)
              /\ u.pc = "write"
              /\ IF u.cls = "Compound"
                 THEN /\ klass' = [klass EXCEPT !.cdce[u.cls] = <<Literal(TRUE, u.name)>> \o u.read]
                      /\ procs' = [procs EXCEPT !.u[p].pc = "done",
                                                !.added[u.cls] = @ \cup {u.name}]
                 ELSE /\ klass' = [klass EXCEPT !.cdce[u.cls] =
                                       Extended(u.read, Literal(TRUE, u.ordered[u.i]))]
                      /\ procs' = [procs EXCEPT !.u[p].pc = IF u.i < Len(u.ordered) THEN "read" ELSE "done",
                                                !.u[p].i = @ + 1]
    /\ Stepped

\* root: the parser reads current_doc_compound_expressions of its compound
\* class; missing are the names added to the class and not in what it read
Scan ==
    /\ procs.s.pc = "start"
    /\ procs.serialized => \A p \in Threads : procs.u[p].pc = "done"
    /\ procs' = [procs EXCEPT !.s.pc = "done",
                              !.s.seen = Expressions(klass, procs.s.cls),
                              !.s.missing = procs.added[procs.s.cls]
                                                \ NamesIn(Expressions(klass, procs.s.cls))]
    /\ UNCHANGED klass
    /\ Stepped

NextDoc == AddName \/ SortNames \/ ClearExpressions \/ ReadExpressions \/ WriteExpressions \/ Scan

SpecDoc == InitDoc /\ [][NextDoc]_vars

----------------------------------------------------------------------------
(* Properties.  pre holds the heap and the list before the last call, last    *)
(* the call and its result, so that what a call did is a state predicate.     *)

IsMerge == last.op \in {"merge_contextual", "merge_all"}

\* the last call returned (it did not end in an exception)
Returned == last.ret # "raise"

NonDefault(h, r, f) == ~PyEq(h, GetAttr(h, r, f), Fields[ClassOf(h, r)][f].default)

RECURSIVE Same(_, _, _, _)
\* the value a of heap h1 and the value b of heap h2 are equal, records being
\* compared field by field
Same(h1, a, h2, b) ==
    IF a.k # b.k THEN FALSE
    ELSE CASE a.k = "obj" ->
                 /\ ClassOf(h1, a.v) = ClassOf(h2, b.v)
                 /\ \A f \in FieldNames(ClassOf(h1, a.v)) :
                       Same(h1, GetAttr(h1, a.v, f), h2, GetAttr(h2, b.v, f))
           [] a.k = "list" ->
                 /\ Len(a.v) = Len(b.v)
                 /\ \A i \in 1..Len(a.v) : Same(h1, ObjV(a.v[i]), h2, ObjV(b.v[i]))
           [] OTHER -> a = b

\* some field of A, at any depth, is not what it was before the last call
AChanged == ~Same(pre.heap, ObjV(recA), heap, ObjV(recA))

RECURSIVE Nested(_, _)
\* the record r and the records nested in it
Nested(h, r) ==
    {r} \cup UNION {LET v == GetAttr(h, r, f)
                    IN  IF v.k = "obj" THEN Nested(h, v.v)
                        ELSE IF v.k = "list"
                        THEN UNION {Nested(h, v.v[i]) : i \in 1..Len(v.v)}
                        ELSE {} : f \in FieldNames(ClassOf(h, r))}

ElementsOf(ms) == {ms[i] : i \in 1..Len(ms)}

RECURSIVE C1_Fields(_, _, _)
\* r is a record of A before the call and q the record at the same place
\* after it: every field that was not default is as before, and every field
\* that is not as before is within the ranges for the distance d
C1_Fields(r, q, d) ==
    \A f \in FieldNames(ClassOf(pre.heap, r)) :
        LET a == GetAttr(pre.heap, r, f)
            b == GetAttr(heap, q, f)
        IN  IF a.k = "obj" /\ b.k = "obj" THEN C1_Fields(a.v, b.v, d)
            ELSE IF a.k = "list" /\ b.k = "list" /\ Len(a.v) = Len(b.v)
            THEN \A i \in 1..Len(a.v) : C1_Fields(a.v[i], b.v[i], d)
            ELSE /\ NonDefault(pre.heap, r, f) => Same(pre.heap, a, heap, b)
                 /\ ~Same(pre.heap, a, heap, b) => InRange(pre.heap, r, f, d)

\* C1: after A.merge_contextual(B, d), every field of A, at any depth, that held
\* a non-default value holds the same value, and every field whose value
\* changed has d <= contextual_range(field) and d > no_merge_range(field).
C1_KeepsFieldsAndRespectsRanges ==
    (last.op = "merge_contextual" /\ Returned) => C1_Fields(recA, recA, last.d)

\* no field holds two different non-empty values in the records a and b
NoConflict(h, a, b) ==
    \A f \in FieldNames(ClassOf(h, a)) :
        LET fd == Fields[ClassOf(h, a)][f]
        IN  \/ FieldIsEmpty(h, fd, GetAttr(h, a, f))
            \/ FieldIsEmpty(h, fd, GetAttr(h, b, f))
            \/ PyEq(h, GetAttr(h, a, f), GetAttr(h, b, f))

\* the field f of A is one the call is to fill from B
C2_Fillable(f) ==
    LET fd == Fields[ClassOf(pre.heap, recA)][f]
    IN  /\ fd.contextual
        /\ ~fd.never
        /\ FieldIsEmpty(pre.heap, fd, GetAttr(pre.heap, recA, f))
        /\ ~FieldIsEmpty(pre.heap, fd, GetAttr(pre.heap, recB, f))
        /\ InRange(pre.heap, recA, f, last.d)

\* C2: for A and B of the same type without conflicting fields, A not
\* contextual-fulfilled, A.merge_contextual(B, d) gives every contextual,
\* mergeable field that is empty in A, non-empty in B and in range B's value,
\* leaves A's non-empty fields as they were, and returns True.
C2_FillsEmptyContextualFields ==
    (/\ last.op = "merge_contextual"
     /\ Returned
     /\ ClassOf(pre.heap, recA) = ClassOf(pre.heap, recB)
     /\ NoConflict(pre.heap, recA, recB)
     /\ ~contextual_fulfilled(pre.heap, recA))
    => LET cls == ClassOf(pre.heap, recA)
       IN  /\ \A f \in FieldNames(cls) :
                 C2_Fillable(f) =>
                     /\ Same(heap, GetAttr(heap, recA, f), pre.heap, GetAttr(pre.heap, recB, f))
                     /\ last.ret = "True"
           /\ \A f \in FieldNames(cls) :
                 ~FieldIsEmpty(pre.heap, Fields[cls][f], GetAttr(pre.heap, recA, f)) =>
                     Same(pre.heap, GetAttr(pre.heap, recA, f), heap, GetAttr(heap, recA, f))

\* C3: A.merge_contextual(B, d) returns the boolean True when some field of A
\* changed during the call and the boolean False when none did.
C3_ReturnsWhetherAChanged ==
    (last.op = "merge_contextual" /\ Returned) =>
        last.ret = (IF AChanged THEN "True" ELSE "False")

\* every binding field set on a agrees with b's field of the same name: b has
\* none, or they are equal, or one record is a superset of the other
BindingAgrees(h, a, b) ==
    \A f \in DOMAIN binding_properties(h, a) :
        f \in FieldNames(ClassOf(h, b)) =>
            LET av == GetAttr(h, a, f)
                bv == GetAttr(h, b, f)
            IN  \/ bv.k = "None"
                \/ PyEq(h, av, bv)
                \/ /\ av.k = "obj"
                   /\ bv.k = "obj"
                   /\ is_superset(h, av.v, bv.v) \/ is_subset(h, av.v, bv.v)

\* C4: a merge into A whose binding fields disagree with B's leaves A as it
\* was and returns False, and whatever the merge does, a binding field of A
\* that was set still holds the value it was set to.
C4_BindingGuardsMerges ==
    (IsMerge /\ Returned) =>
        /\ ~BindingAgrees(pre.heap, recA, last.other) =>
               ~AChanged /\ last.ret = "False"
        /\ \A f \in DOMAIN binding_properties(pre.heap, recA) :
               GetAttr(heap, recA, f) = GetAttr(pre.heap, recA, f)

RECURSIVE C5_StaysSet(_, _)
\* r is a record of A before the call and q the record at the same place after
\* it: every field that was non-empty is non-empty, at every depth
C5_StaysSet(r, q) ==
    \A f \in FieldNames(ClassOf(pre.heap, r)) :
        LET fd == Fields[ClassOf(pre.heap, r)][f]
            a == GetAttr(pre.heap, r, f)
            b == GetAttr(heap, q, f)
        IN  /\ ~FieldIsEmpty(pre.heap, fd, a) => ~FieldIsEmpty(heap, fd, b)
            /\ (a.k = "obj" /\ b.k = "obj") => C5_StaysSet(a.v, b.v)
            /\ (a.k = "list" /\ b.k = "list" /\ Len(a.v) <= Len(b.v)) =>
                   \A i \in 1..Len(a.v) : C5_StaysSet(a.v[i], b.v[i])

Incompatible(h, a, b) ==
    \/ ClassOf(h, b) \notin flatten(ClassOf(h, a))
    \/ ClassOf(h, b) = ClassOf(h, a) /\ ~Compatible(h, a, b)

\* C6: merge_contextual and merge_all return without raising for records of
\* any types, and for an incompatible B they return False and leave A as it was.
C6_MergesNeverRaise ==
    IsMerge =>
        /\ Returned
        /\ Incompatible(pre.heap, recA, recB) => (last.ret = "False" /\ ~AChanged)

RECURSIVE SupersetAsStated(_, _, _)
\* a and b have the same type and, for every field, b's value is empty or a's
\* value agrees with it, nested records agreeing in this same sense
SupersetAsStated(h, a, b) ==
    /\ ClassOf(h, a) = ClassOf(h, b)
    /\ \A f \in FieldNames(ClassOf(h, a)) :
          LET fd == Fields[ClassOf(h, a)][f]
              av == GetAttr(h, a, f)
              bv == GetAttr(h, b, f)
          IN  \/ FieldIsEmpty(h, fd, bv)
              \/ IF IsModelField(fd)
                 THEN av.k = "obj" /\ bv.k = "obj" /\ SupersetAsStated(h, av.v, bv.v)
                 ELSE PyEq(h, av, bv)

\* C7: A.is_superset(B) is True exactly when A and B have the same type and every
\* field of B is empty or agrees with A's; A.is_subset(B) is B.is_superset(A).
C7_SupersetIsFieldwiseAgreement ==
    /\ last.op = "is_superset" =>
           (last.ret = "True" <=> SupersetAsStated(pre.heap, recA, recB))
    /\ last.op = "is_subset" =>
           (last.ret = "True" <=> SupersetAsStated(pre.heap, recB, recA))

\* C8: after remove_subsets(strict=False) no remaining record is a subset of
\* another remaining record of its type, and a record Y that is a subset of a
\* record X of higher confidence is gone while X (a subset of no third record)
\* remains.
C8_NoSubsetRemains ==
    (last.op = "remove_subsets" /\ ~last.strict) =>
        /\ \A i, j \in 1..Len(models) :
               (i # j /\ ClassOf(heap, models[i]) = ClassOf(heap, models[j])) =>
                   ~is_subset(heap, models[i], models[j])
        /\ \A x, y \in ElementsOf(pre.models) :
               (/\ x # y
                /\ is_subset(heap, y, x)
                /\ total_confidence(heap, x) > total_confidence(heap, y)
                /\ \A z \in ElementsOf(pre.models) \ {x, y} : ~is_subset(heap, x, z))
               => (y \notin ElementsOf(models) /\ x \in ElementsOf(models))

\* C9: remove_subsets discards a record only if it is a subset of another
\* record of its type whose total confidence is not lower than its own.
C9_DiscardsOnlyBelowBetterRecord ==
    last.op = "remove_subsets" =>
        \A y \in ElementsOf(pre.models) \ ElementsOf(models) :
            \E x \in ElementsOf(pre.models) \ {y} :
                /\ is_subset(heap, y, x)
                /\ total_confidence(heap, x) >= total_confidence(heap, y)

\* the records of class c in the list before the call are two or more and
\* all have the same field values
AllAlike(c) ==
    LET els == Typed(pre.heap, pre.models, c)
    IN  /\ Len(els) >= 2
        /\ \A i, j \in 1..Len(els) : PyEq(pre.heap, ObjV(els[i]), ObjV(els[j]))

RECURSIVE EqualOnNonEmpty(_, _, _)
\* b holds what a holds in every field of a that is not empty; a nested record
\* and the records of a list are compared in this same sense
EqualOnNonEmpty(h, a, b) ==
    /\ ClassOf(h, a) = ClassOf(h, b)
    /\ \A f \in FieldNames(ClassOf(h, a)) :
          LET fd == Fields[ClassOf(h, a)][f]
              av == GetAttr(h, a, f)
              bv == GetAttr(h, b, f)
          IN  \/ FieldIsEmpty(h, fd, av)
              \/ CASE fd.kind = "model" -> bv.k = "obj" /\ EqualOnNonEmpty(h, av.v, bv.v)
                   [] fd.kind = "list" ->
                         /\ bv.k = "list"
                         /\ Len(bv.v) = Len(av.v)
                         /\ \A i \in 1..Len(av.v) : EqualOnNonEmpty(h, av.v[i], bv.v[i])
                   [] OTHER -> PyEq(h, av, bv)

\* C11: type(R).deserialize(R.serialize()) returns without error a record that
\* equals R on all the fields of R that are not empty, whatever the field names.
C11_RoundTripGivesRecordBack ==
    last.op = "deserialize" =>
        /\ last.ret # "raise"
        /\ EqualOnNonEmpty(heap, recA, others[1])

IsAccess == last.op \in {"getitem", "setitem"}

RECURSIVE NamesUnknownField(_, _)
\* the keypath names a field that is not in the schema: its first name is no
\* field of cls, or it is a nested-model field (or a list of nested models) and
\* the rest of the keypath names a field that is not in the nested schema
NamesUnknownField(cls, key) ==
    \/ key[1] \notin FieldNames(cls)
    \/ /\ Len(key) > 1
       /\ Fields[cls][key[1]].kind \in {"model", "list"}
       /\ NamesUnknownField(Fields[cls][key[1]].model, Tail(key))

\* C12: a dictionary-style or keypath read or write that names a field not in
\* the schema, at the top level or at a nested level, raises an error and
\* leaves the fields of the record and of its nested records as they were.
C12_UnknownFieldRaises ==
    (IsAccess /\ NamesUnknownField(ClassOf(pre.heap, recA), last.key)) =>
        /\ Raised(last.ret)
        /\ heap.cells = pre.heap.cells

\* the declared type of the field cannot convert the value: a string that is
\* no number for a float field, a record of another class for a nested-model
\* field
Unconvertible(h, fd, v) ==
    \/ fd.kind = "flt" /\ v.k = "str" /\ v.v \notin DOMAIN Numeric
    \/ fd.kind = "model" /\ v.k = "obj" /\ ClassOf(h, v.v) # fd.model

\* the last call assigned the value last.value to the field last.key[1] of A
IsAssignment ==
    /\ last.op = "setitem"
    /\ Len(last.key) = 1
    /\ last.key[1] \in FieldNames(ClassOf(pre.heap, recA))

\* C13: assigning to a field a value its declared type cannot convert raises an
\* error and leaves the field's previous value in place.
C13_TypeMismatchRaises ==
    (IsAssignment /\ Unconvertible(pre.heap, Fields[ClassOf(pre.heap, recA)][last.key[1]],
                                   last.value)) =>
        /\ Raised(last.ret)
        /\ GetAttr(heap, recA, last.key[1]) = GetAttr(pre.heap, recA, last.key[1])

RECURSIVE FactorAsStated(_, _, _)
\* the product of (1 - requiredness), in percent, over every required field
\* that is empty, from the i-th field of r on and through the nested records
FactorAsStated(h, r, i) ==
    LET order == FieldOrder[ClassOf(h, r)]
    IN  IF i > Len(order) THEN 100
        ELSE LET fd == Fields[ClassOf(h, r)][order[i]]
                 v == GetAttr(h, r, order[i])
                 own == IF fd.required /\ FieldIsEmpty(h, fd, v)
                        THEN 100 - fd.requiredness ELSE 100
                 sub == IF IsModelField(fd) /\ v.k = "obj"
                        THEN FactorAsStated(h, v.v, 1) ELSE 100
             IN  (((own * sub) \div 100) * FactorAsStated(h, r, i + 1)) \div 100

\* C14: total_confidence() returns the explicit self-confidence when one is
\* set; otherwise the pooled per-field confidence times the product of
\* (1 - requiredness) over every required field that is missing, recursively
\* through the nested records.
C14_TotalConfidenceAsStated ==
    last.op = "total_confidence" =>
        last.ret = IF "self" \in DOMAIN ConfOf(heap, recA) THEN ConfOf(heap, recA)["self"]
                   ELSE (Pooled(FieldConfidences(heap, recA, "min"))
                         * FactorAsStated(heap, recA, 1)) \div 100


\* C15: the inferrer of an inferred field is called at most once for a record:
\* the first read computes and stores the value, and no later read of the
\* field calls the inferrer again, whatever value it produced.
C15_InferrerCalledAtMostOnce ==
    \A f \in DOMAIN calls : calls[f] <= 1


\* the second slash-delimited value of a data cell
RECURSIVE ValuesOf(_)
ValuesOf(data) ==
    IF data = <<>> THEN <<>>
    ELSE (IF Head(data) \in Numbers \cup NoValues THEN <<Head(data)>> ELSE <<>>)
         \o ValuesOf(Tail(data))

\* the units written with the delayed component: after the second value of
\* the data cell, and after the delayed specifier of the header
RECURSIVE UnitsFrom(_, _, _)
UnitsFrom(t, i, stops) ==
    IF i > Len(t) \/ t[i] \in stops THEN {}
    ELSE (IF t[i] \in TimeUnits THEN {t[i]} ELSE {}) \cup UnitsFrom(t, i + 1, stops)
PositionOf(t, x) == CHOOSE i \in 1..Len(t) : t[i] = x
DelayedUnits(c) ==
    LET own == UnitsFrom(c.data, PositionOf(c.data, ValuesOf(c.data)[2]) + 1, Separators)
        all == UnitsFrom(c.header, PositionOf(c.header, "tauD") + 1, {})
    IN  IF own # {} THEN own
        ELSE IF Cardinality(all) = 2 THEN {"us"} ELSE all

\* C16: for a header naming a prompt and a delayed lifetime separated by a
\* slash and a cell of slash-delimited values, TauDTableParser yields a
\* DelayedLifetime whose raw_value is the second value and whose raw_units is
\* the unit of the delayed component; the first value is never the record's.
C16_SecondValueWithDelayedUnit ==
    (last.op = "parse_cell" /\ cell.header \in PromptDelayedHeaders) =>
        /\ Len(yielded) = 1
        /\ yielded[1].raw_value = ValuesOf(cell.data)[2]
        /\ yielded[1].raw_value # ValuesOf(cell.data)[1]
        /\ DelayedUnits(cell) # {} => yielded[1].raw_units \in DelayedUnits(cell)

\* what holds of the value: the record's raw_value is the last value of the
\* cell, the second of two and the third of three, never the first
T16_LastValueYielded ==
    (last.op = "parse_cell" /\ cell.header \in PromptDelayedHeaders) =>
        /\ Len(yielded) = 1
        /\ yielded[1].raw_value = LastOf(ValuesOf(cell.data))
        /\ yielded[1].raw_value # ValuesOf(cell.data)[1]


\* C17: construct_unit_element builds the unit grammar for every integer
\* max_power from 2 to 9, and raises for a max_power outside that range or
\* not an integer; an invalid max_power is never accepted silently.  (No
\* max_power, None, asks for no limit and is not a case of the claim.)
C17_MaxPowerFromTwoToNine ==
    (last.op = "construct_unit_element" /\ args.max_power.t # "None") =>
        IF args.max_power.t = "int" /\ args.max_power.v \in 2..9
        THEN element = Element(2..args.max_power.v)
        ELSE element.k = "raise"

\* what holds: with dimensions that have units, integers from 3 to 9 build
\* the grammar and every other value but None raises
T17_FromThreeToNine ==
    (last.op = "construct_unit_element" /\ args.dimensions = "Time"
        /\ args.max_power.t # "None") =>
        IF args.max_power.t = "int" /\ args.max_power.v \in 3..9
        THEN element = Element(2..args.max_power.v)
        ELSE element.k = "raise"


\* C18: across any sequence of update, update_abbrev and
\* update_theme_compound calls, the parse expression of every field declared
\* updatable=False stays the one it was declared with; only updatable fields
\* have their parse expression changed.
C18_OnlyUpdatableFieldsChange ==
    \A cls \in DOMAIN klass.exprs :
        ~Updatable[cls] => klass.exprs[cls] = ParseExpressions[cls]


\* every update call is complete
UpdatesDone == \A p \in Threads : procs.u[p].pc = "done"

\* a name added by an update is missing from the alternation of its class
NameLost ==
    /\ UpdatesDone
    /\ \E cls \in CompoundClasses : procs.added[cls] \ NamesIn(Expressions(klass, cls)) # {}

\* the scan read an alternation without a name already added to the class
StaleScan == procs.s.pc = "done" /\ procs.s.missing # {}

\* C19: when the update calls run one at a time and are complete before the
\* scan starts, no name added by an update is missing from the alternation
\* and the scan reads no partially rebuilt alternation; when the calls
\* interleave such a state is reachable (C19_Witness).
C19_SerializedUpdatesAreSafe ==
    procs.serialized => ~NameLost /\ ~StaleScan

\* interleaved calls: a name was lost and the scan read a stale alternation
C19_Witness ==
    ~procs.serialized /\ NameLost /\ StaleScan

\* the calls made one after the other, two names added and read by the scan
SerializedRunComplete ==
    /\ procs.serialized /\ UpdatesDone /\ procs.s.pc = "done"
    /\ Cardinality(NamesIn(procs.s.seen)) = 2


RECURSIVE ConflictAsStated(_, _, _)
\* some field that is not ignored when merging holds two different
\* non-default values in the records a and b of one type: nested records are
\* compared field by field in this same sense, lists and sets by equality
ConflictAsStated(h, a, b) ==
    \E f \in FieldNames(ClassOf(h, a)) :
        LET fd == Fields[ClassOf(h, a)][f]
            av == GetAttr(h, a, f)
            bv == GetAttr(h, b, f)
        IN  /\ ~fd.ignore
            /\ NonDefault(h, a, f)
            /\ NonDefault(h, b, f)
            /\ IF IsModelField(fd)
               THEN av.k = "obj" /\ bv.k = "obj" /\ ConflictAsStated(h, av.v, bv.v)
               ELSE ~PyEq(h, av, bv)

\* C20: merge_contextual and merge_all between two records A and B of one
\* type leave A's fields unchanged and return False whenever some field that
\* is not ignored when merging holds two different non-default values in A
\* and B.
C20_ConflictingRecordsNotMerged ==
    (/\ IsMerge
     /\ ClassOf(pre.heap, recA) = ClassOf(pre.heap, last.other)
     /\ ConflictAsStated(pre.heap, recA, last.other))
    => /\ Returned
       /\ last.ret = "False"
       /\ ~AChanged


\* what holds for such A and B: the call returns without raising, merge_all
\* returns False, merge_contextual False or A itself, and A is unchanged
\* when it has no binding field set
T20_NothingOfBMerged ==
    (/\ IsMerge
     /\ ClassOf(pre.heap, recA) = ClassOf(pre.heap, last.other)
     /\ ConflictAsStated(pre.heap, recA, last.other))
    => /\ Returned
       /\ last.ret \in (IF last.op = "merge_all" THEN {"False"} ELSE {"False", "self"})
       /\ binding_properties(pre.heap, recA) = <<>> => ~AChanged

(* Records that are contextually complete *)

CompleteCompound == [labels |-> {"1"}, roles |-> {"product"}]

\* property records whose contextual fields are all set but for value
CompletePropInputs ==
    [specifier : Opt({"tau", "PLQY"}), value : Opt({1}), units : {<<"ns">>},
     note : {<<"film">>}, compound : {<<CompleteCompound>>},
     cond : {<<[name |-> <<"water">>, compound |-> <<CompleteCompound>>]>>},
     conds : {<<ListedCond>>}]

InitKeep ==
    \E p \in Profiles, xa \in CompletePropInputs, xb \in FlatPropInputs :
        Start("Prop", xa, "Prop", xb, p)

NextKeep == MergeContextual \/ MergeAll

SpecKeep == InitKeep /\ [][NextKeep]_vars

\* some field that is ignored when merging holds two different non-default
\* values in the records a and b of one type
KeepBothAsStated(h, a, b) ==
    \E f \in FieldNames(ClassOf(h, a)) :
        /\ Fields[ClassOf(h, a)][f].ignore
        /\ NonDefault(h, a, f)
        /\ NonDefault(h, b, f)
        /\ ~PyEq(h, GetAttr(h, a, f), GetAttr(h, b, f))

\* C21: when two records of one type hold different non-empty values in a
\* field marked ignore_when_merging, merge_contextual and merge_all return
\* False, and the keep-both flag is raised only when both records hold a value
\* for such a field.
C21_KeepBothReturnsFalse ==
    (IsMerge /\ ClassOf(pre.heap, recA) = ClassOf(pre.heap, last.other))
    => /\ KeepBothAsStated(pre.heap, recA, last.other)
          => (Returned /\ last.ret = "False")
       /\ should_keep_both_records(pre.heap, recA, last.other)
          => KeepBothAsStated(pre.heap, recA, last.other)

\* what holds for such A and B: merge_all returns False, merge_contextual
\* False or A itself, and the flag is raised exactly for them
T21_KeepBothNeverTrue ==
    (IsMerge /\ ClassOf(pre.heap, recA) = ClassOf(pre.heap, last.other))
    => /\ KeepBothAsStated(pre.heap, recA, last.other)
          => /\ Returned
             /\ last.ret \in (IF last.op = "merge_all" THEN {"False"} ELSE {"False", "self"})
       /\ should_keep_both_records(pre.heap, recA, last.other)
          <=> KeepBothAsStated(pre.heap, recA, last.other)

RECURSIVE NestedSingly(_, _)
\* the records nested in r that are reached through nested-model fields only,
\* the fields that hold a binding value of bound excepted
NestedSingly(h, r) ==
    UNION {LET v == GetAttr(h, r, f)
           IN  IF v.k = "obj" THEN {v.v} \cup NestedSingly(h, v.v) ELSE {}
           : f \in FieldNames(ClassOf(h, r))}

\* every record of rs that declares a binding field of A holds A's value for it
BoundIn(rs) ==
    \A f \in DOMAIN binding_properties(heap, recA) :
        \A r \in rs :
            f \in FieldNames(ClassOf(heap, r))
            => Same(heap, GetAttr(heap, r, f), heap, GetAttr(heap, recA, f))

\* merge_contextual or merge_all has merged something into A
StructuralMerge == IsMerge /\ Returned /\ AChanged

\* C22: after merge_contextual or merge_all has merged into A, every record
\* nested anywhere inside A, single or inside a list field, that declares a
\* binding field f of A holds A's non-empty value of f.
C22_BindingHoldsInEveryNestedRecord ==
    StructuralMerge => BoundIn(Nested(heap, recA) \ {recA})

\* what holds: the records reached through nested-model fields hold A's
\* binding values; the records of a list field are left as they were
T22_BindingHoldsInSingleNestedRecords ==
    StructuralMerge => BoundIn(NestedSingly(heap, recA))

----------------------------------------------------------------------------
(* Records whose fields come with confidences *)

\* the fields of the input x of a property record that are set to a scalar
ScalarsSet(x) == {f \in {"value", "units"} : x[f] # <<>>}

\* the confidences a record comes with: none, one for each scalar field
\* that is set, or these and one for the record itself
ConfidencesOf(fs) ==
    {NoDict}
    \cup {[f \in fs |-> c] : c \in {50, 90}}
    \cup {[f \in fs \cup {"self"} |-> c] : c \in {50, 90}}

\* property records with and without their scalar fields, a nested condition
\* and a list of conditions
ConfPropInputs ==
    [specifier : {<<"tau">>}, value : Opt({1}), units : Opt({"ns"}), note : {<<>>},
     compound : {<<>>}, cond : {<<>>, <<[name |-> <<>>, compound |-> <<>>]>>},
     conds : {<<>>}]

\* the record merged into it, as <<class, input, fields that are set>>
ConfOthers ==
    {<<"Prop", x, ScalarsSet(x)>> : x \in {y \in ConfPropInputs : y.cond = <<>>}}
    \cup {<<"Cond", [name |-> <<"water">>, compound |-> <<>>], {"name"}>>,
          <<"ThemeCompound", [labels |-> {"1"}, roles |-> {}], {"labels"}>>}

\* a record of class cls built from the input x with the confidences conf
BuildWith(h, cls, x, conf) ==
    CASE cls = "ThemeCompound" -> BuildCompound(h, x, conf, NoDict)
      [] cls = "Cond" -> BuildCond(h, x, conf, NoDict)
      [] cls = "Prop" -> BuildProp(h, x, conf, NoDict)

InitConf ==
    \E xa \in ConfPropInputs, b \in ConfOthers :
        \E ca \in ConfidencesOf(ScalarsSet(xa)), cb \in ConfidencesOf(b[3]) :
            LET h1 == BuildProp(EmptyHeap, xa, ca, NoDict)
                h2 == BuildWith(h1, b[1], b[2], cb)
            IN  /\ heap = h2
                /\ recA = Top(h1)
                /\ others = <<Top(h2)>>
                /\ models = <<>>
                /\ pre = [heap |-> h2, models |-> <<>>]
                /\ last = NoCall
                /\ steps = 0
                /\ AuxInit

NextConf == MergeContextual \/ MergeAll

SpecConf == InitConf /\ [][NextConf]_vars

\* the field f of A was at its default before the last call and is not after it
Filled(f) == ~NonDefault(pre.heap, recA, f) /\ NonDefault(heap, recA, f)

\* the confidence B brings for the field f of A: its confidence for f when it
\* is of A's type, its own confidence when it is the record f is filled with
BroughtFor(f) ==
    IF ClassOf(pre.heap, last.other) = ClassOf(pre.heap, recA)
    THEN get_confidence(pre.heap, last.other, f, "none")
    ELSE <<TotalConfidence(pre.heap, last.other, "none")>>

\* A's confidence for the filled field f is the lower of A's and B's
PooledOn(f) ==
    get_confidence(heap, recA, f, "none")
        = LowerConfidence(get_confidence(pre.heap, recA, f, "none"), BroughtFor(f))

\* the merge counter of A went up by one
Counted == heap.objs[recA].cnt = pre.heap.objs[recA].cnt + 1

\* C23: whenever a merge fills field f of A from B, A's confidence for f
\* afterwards is the lower of A's and B's confidences for f (B's when A had
\* none), for merges of a same-type and of a nested-type record alike, and the
\* merge counter of A goes up by one in every merge call that filled a field.
C23_LowerConfidenceAndCounter ==
    (IsMerge /\ Returned)
    => \A f \in FieldNames(ClassOf(heap, recA)) :
           Filled(f) => (PooledOn(f) /\ Counted)

\* what holds: the lower confidence is kept for every filled field that is
\* not a list, and merge_contextual counts the merge while merge_all does not
T23_LowerConfidenceButForLists ==
    (IsMerge /\ Returned)
    => \A f \in FieldNames(ClassOf(heap, recA)) :
           Filled(f)
           => /\ Fields[ClassOf(heap, recA)][f].kind # "list" => PooledOn(f)
              /\ Counted <=> last.op = "merge_contextual"

----------------------------------------------------------------------------
(* Auto-parsers: BaseAutoParser.interpret and its table variants *)

\* A match result is an element that gives, for each tag, its children of
\* that name in document order: texts for a scalar tag, elements for medium
\* and refs.  The children of a result stand in the order of the schema.
MediumElements == [name : Opt({"water"}), specifier : Opt({"in"})]

ResultTrees ==
    [specifier : Opt({"tau"}), medium : Opt(MediumElements),
     tags : {<<>>, <<"a">>, <<"a", "b">>},
     refs : Opt(MediumElements \ {[name |-> <<>>, specifier |-> <<>>]}),
     note : Opt({"film"})]

\* result.xpath("./" + tag)
Children(el, tag) == IF tag \in DOMAIN el THEN el[tag] ELSE <<>>

RECURSIVE Below(_, _)
\* the children named tag of the elements els
Below(els, tag) ==
    IF els = <<>> THEN <<>> ELSE Children(Head(els), tag) \o Below(Tail(els), tag)

\* result.xpath("//" + tag): every element of that name in the tree of root,
\* whose elements with children are those named medium, refs and compound
Descendants(root, tag) ==
    Children(root, tag) \o Below(Children(root, "medium"), tag)
    \o Below(Children(root, "refs"), tag) \o Below(Children(root, "compound"), tag)

\* BaseAutoParser._get_data_for_field(result, field_name): the children of
\* that name, and when there is none every element of that name in the tree
FieldResults(root, el, tag) ==
    IF Children(el, tag) # <<>> THEN Children(el, tag) ELSE Descendants(root, tag)

\* the fields _get_data raises TypeError for when nothing is found
Hard(fd) == fd.required /\ ~fd.contextual /\ fd.requiredness = 100

\* what _get_data hands back: "raise" for TypeError, "none" for None, "data"
\* for {field_name: v}; h is the heap with the records made so far
Got(h, k, v) == [h |-> h, k |-> k, v |-> v]

\* the texts found for a list or set field
TextsV(ts) == [k |-> "texts", v |-> ts]

\* ListType(field) and SetType(field): the field the elements are declared with
InnerField(fd) == IF fd.kind = "list" THEN Fld("model", fd.model) ELSE Fld("str", "")

\* what BaseType.__set__ stores for the value v handed to the constructor
Stores(h, fd, v) ==
    IF v.k = "texts" THEN SetV({v.v[i] : i \in 1..Len(v.v)}) ELSE Process(h, fd, v)

\* model_class(**entities)
Construct(h, cls, entities) ==
    NewRec(h, cls,
           [f \in FieldNames(cls) |->
               IF f \in DOMAIN entities THEN Stores(h, Fields[cls][f], entities[f])
               ELSE Fields[cls][f].default],
           NoDict, NoDict)

RECURSIVE get_data(_, _, _, _, _, _)
RECURSIVE SubFields(_, _, _, _, _, _)
RECURSIVE ObjectsFrom(_, _, _, _, _, _)

\* if data: field_data.update(data), and on to the next field; r is what
\* _get_data gave for the i-th field, whose TypeError is handed on
SubFieldsNext(r, root, el, cls, i, acc) ==
    IF r.k = "raise" THEN r
    ELSE SubFields(r.h, root, el, cls, i + 1,
                   IF r.k = "data" THEN DictPut(acc, FieldOrder[cls][i], r.v) ELSE acc)

\* the loop of _get_data over the fields of the nested model cls, from the
\* i-th on: field_data so far is acc
SubFields(h, root, el, cls, i, acc) ==
    IF i > Len(FieldOrder[cls]) THEN Got(h, "data", acc)
    ELSE SubFieldsNext(get_data(h, root, el, FieldOrder[cls][i],
                                Fields[cls][FieldOrder[cls][i]], FALSE),
                       root, el, cls, i, acc)

\* field_object = field.model_class(**field_data) if field_data has keys:
\* the heap, and the object made, if any
FieldObject(h, cls, field_data) ==
    IF DOMAIN field_data = {} THEN [h |-> h, new |-> <<>>]
    ELSE [h |-> Construct(h, cls, field_data), new |-> <<Top(h) + 1>>]

\* field_objects.append(field_object), and on to the next element
ObjectsAppend(w, root, els, cls, j, acc) ==
    ObjectsFrom(w.h, root, els, cls, j + 1, acc \o w.new)

\* r is field_data for the j-th element, or the TypeError of a subfield
ObjectsNext(r, root, els, cls, j, acc) ==
    IF r.k = "raise" THEN r
    ELSE ObjectsAppend(FieldObject(r.h, cls, r.v), root, els, cls, j, acc)

\* the loop of _get_data over field_results, from the j-th on: field_objects
\* so far is acc
ObjectsFrom(h, root, els, cls, j, acc) ==
    IF j > Len(els) THEN Got(h, "data", acc)
    ELSE ObjectsNext(SubFields(h, root, els[j], cls, 1, NoDict), root, els, cls, j, acc)

\* what _get_data returns for a nested-model field whose field_objects are r
ModelData(r, for_list) ==
    IF r.k = "raise" THEN r
    ELSE IF r.v = <<>> THEN Got(r.h, "none", None)
    ELSE Got(r.h, "data", IF for_list THEN ListV(r.v) ELSE ObjV(r.v[1]))

\* what _get_data returns for a list or set field whose field_data is r
ListData(r) == IF r.k = "data" /\ r.v.v = <<>> THEN Got(r.h, "none", None) ELSE r

\* BaseAutoParser._get_data(field_name, field, result, for_list)
get_data(h, root, el, name, fd, for_list) ==
    CASE fd.kind = "model" ->
            LET els == FieldResults(root, el, name)
            IN  IF ~for_list /\ els = <<>>
                THEN IF Hard(fd) THEN Got(h, "raise", None) ELSE Got(h, "none", None)
                ELSE ModelData(ObjectsFrom(h, root, IF for_list THEN els ELSE <<els[1]>>,
                                           fd.model, 1, <<>>),
                               for_list)
      [] fd.kind \in {"list", "set"} ->
            ListData(get_data(h, root, el, name, InnerField(fd), TRUE))
      [] OTHER ->
            LET texts == FieldResults(root, el, name)
            IN  IF texts = <<>>
                THEN IF Hard(fd) THEN Got(h, "raise", None) ELSE Got(h, "none", None)
                ELSE Got(h, "data", IF for_list THEN TextsV(texts) ELSE StrV(texts[1]))

RECURSIVE Entities(_, _, _, _, _)

\* the loop of interpret as it would be without its try: a TypeError of
\* _get_data leaves the loop
AfterFieldUncaught(r, result, cls, i, acc) ==
    IF r.k = "raise" THEN r
    ELSE Entities(r.h, result, cls, i + 1,
                  IF r.k = "data" THEN DictPut(acc, FieldOrder[cls][i], r.v) ELSE acc)

\* try: property_entities.update(data) if data is not None; except TypeError:
\* the field is left out; and on to the next field
AfterField(r, result, cls, i, acc) ==
    Entities(r.h, result, cls, i + 1,
             IF r.k = "data" THEN DictPut(acc, FieldOrder[cls][i], r.v) ELSE acc)

\* the loop of interpret over the fields of the model, from the i-th on: the
\* value and unit fields are not looked for there
Entities(h, result, cls, i, acc) ==
    IF i > Len(FieldOrder[cls]) THEN Got(h, "data", acc)
    ELSE IF FieldOrder[cls][i] \in {"raw_value", "raw_units", "value", "units", "error"}
    THEN Entities(h, result, cls, i + 1, acc)
    ELSE AfterField(get_data(h, result, result, FieldOrder[cls][i],
                             Fields[cls][FieldOrder[cls][i]], FALSE),
                    result, cls, i, acc)

\* the parsers: whether interpret takes a list of results, and whether it
\* puts raw_value and raw_units among the entities whatever was found
Parsers ==
    [AutoSentenceParser |-> [many |-> TRUE, prefilled |-> FALSE],
     AutoTableParser |-> [many |-> TRUE, prefilled |-> FALSE],
     AutoTableParserFactorisedPower |-> [many |-> FALSE, prefilled |-> FALSE],
     TauDTableParser |-> [many |-> FALSE, prefilled |-> TRUE],
     DimlessPLQYTableParser |-> [many |-> FALSE, prefilled |-> TRUE]]

\* the test a record has to pass to be yielded, taken on every record
YieldsEvery(h, r) == TRUE

\* the test a record has to pass to be yielded
Yields(h, r) == noncontextual_required_fulfilled(h, r)

RECURSIVE InterpretFrom(_, _, _, _, _, _)

\* model_instance h1's newest record: it is yielded with its record_method,
\* self.__class__.__name__, when it passes the test, and the loop goes on
AfterBuilt(h1, parser, model, results, i, ys) ==
    InterpretFrom(h1, parser, model, results, i + 1,
                  IF Yields(h1, Top(h1))
                  THEN Append(ys, [rec |-> Top(h1), record_method |-> parser,
                                   candidate |-> i])
                  ELSE ys)

\* e is property_entities for the i-th result: the model is built from it
\* when it has keys; an exception that was not caught ends the call
AfterEntities(e, parser, model, results, i, ys) ==
    IF e.k = "raise" THEN [h |-> e.h, ys |-> ys, ret |-> "raise"]
    ELSE IF DOMAIN e.v # {} \/ Parsers[parser].prefilled
    THEN AfterBuilt(Construct(e.h, model, e.v), parser, model, results, i, ys)
    ELSE InterpretFrom(e.h, parser, model, results, i + 1, ys)

\* the loop of interpret over the results, from the i-th on, in a parser
\* whose self.model is model: ys are the records yielded so far, each with
\* the candidate it came from
InterpretFrom(h, parser, model, results, i, ys) ==
    IF i > Len(results) THEN [h |-> h, ys |-> ys, ret |-> "records"]
    ELSE AfterEntities(Entities(h, results[i], model, 1, NoDict),
                       parser, model, results, i, ys)

\* the candidates a parser that takes a list is handed
ManyTrees ==
    {t \in ResultTrees : /\ t.note = <<>>
                         /\ t.tags # <<"a", "b">>
                         /\ t.medium \in {<<>>, <<[name |-> <<"water">>, specifier |-> <<>>]>>,
                                          <<[name |-> <<>>, specifier |-> <<"in">>]>>}
                         /\ t.refs \in {<<>>, <<[name |-> <<"water">>, specifier |-> <<>>]>>}}

\* what interpret is handed: None (no results), one result, or a list of them
Handed(parser) ==
    {<<>>} \cup {<<t>> : t \in ResultTrees}
    \cup (IF Parsers[parser].many THEN {<<t, u>> : t \in ManyTrees, u \in ManyTrees} ELSE {})

InitInterpret ==
    /\ heap = EmptyHeap
    /\ recA = 0
    /\ others = <<>>
    /\ models = <<>>
    /\ pre = [heap |-> EmptyHeap, models |-> <<>>]
    /\ last = NoCall
    /\ steps = 0
    /\ wire = <<>>
    /\ inferrer = <<>>
    /\ calls = <<>>
    /\ \E parser \in DOMAIN Parsers, declines \in BOOLEAN :
          /\ declines => parser = "DimlessPLQYTableParser"
          /\ \E results \in Handed(parser) :
                cell = [parser |-> parser, results |-> results, declines |-> declines]
    /\ yielded = <<>>
    /\ UnitsInit
    /\ SharedInit

\* list(parser.interpret(results, start, end)).  DimlessPLQYTableParser
\* declines a result that has a unit or whose value is not a decimal fraction.
Interpret ==
    /\ last.op = "init"
    /\ \E r \in {InterpretFrom(heap, cell.parser, "Entry",
                                IF cell.declines THEN <<>> ELSE cell.results, 1, <<>>)} :
          /\ heap' = r.h
          /\ yielded' = r.ys
          /\ last' = Call("interpret", 0, 0, 0, FALSE, r.ret)
    /\ pre' = [heap |-> heap, models |-> models]
    /\ steps' = steps + 1
    /\ UNCHANGED <<recA, others, models, wire, inferrer, calls, cell, units, shared>>

NextInterpret == Interpret

SpecInterpret == InitInterpret /\ [][NextInterpret]_vars

\* C24: every record yielded by an auto-parser's interpret, BaseAutoParser's
\* and the table variants', satisfies noncontextual_required_fulfilled and has
\* the name of the parser class that produced it as its record_method.
C24_YieldedRecordsAreFulfilledAndStamped ==
    last.op = "interpret"
    => \A j \in 1..Len(yielded) :
           /\ noncontextual_required_fulfilled(heap, yielded[j].rec)
           /\ yielded[j].record_method = cell.parser

\* of two candidates handed to a table parser one gave a record, and the
\* other, which has a specifier but no tags, was built and not yielded
C24_Witness ==
    /\ last.op = "interpret"
    /\ cell.parser = "AutoTableParser"
    /\ Len(cell.results) = 2
    /\ Len(yielded) = 1
    /\ yielded[1].candidate = 2
    /\ cell.results[1].specifier # <<>>
    /\ cell.results[1].tags = <<>>

\* the candidate t has no element at all for some field that is required,
\* not contextual and of full requiredness
MissingRequired(t) ==
    \E f \in FieldNames("Entry") : Hard(Fields["Entry"][f]) /\ Descendants(t, f) = <<>>

\* the candidate t has every required field, and so have its nested elements
Complete(t) ==
    /\ t.specifier # <<>>
    /\ t.tags # <<>>
    /\ t.medium # <<>> /\ t.medium[1].name # <<>>
    /\ t.refs # <<>> /\ t.refs[1].name # <<>>

YieldedFrom(i) == {j \in 1..Len(yielded) : yielded[j].candidate = i}

----------------------------------------------------------------------------
(* Sentence parsers: the trigger phrase and the scan of the root phrase *)

\* the models an AutoSentenceParser is made for here
GateModels == {"Prop", "Cond", "CNLabel", "Sample"}

\* a field declared without a parse expression has None
NoExpression == <<[lit |-> "None", tokens |-> <<>>]>>

\* the parse expressions the fields are declared with: W("tauD") for the
\* specifier of a property and W("film") for the part of the other models
\* that is read in a sentence
FieldExpressions ==
    [Prop |-> [specifier |-> <<Literal(TRUE, <<"tauD">>)>>,
               value |-> NoExpression, units |-> NoExpression,
               note |-> <<Literal(TRUE, <<"film">>)>>,
               compound |-> NoExpression, cond |-> NoExpression, conds |-> NoExpression],
     Cond |-> [name |-> <<Literal(TRUE, <<"film">>)>>, compound |-> NoExpression],
     CNLabel |-> [label_Juraj |-> <<Literal(TRUE, <<"film">>)>>, compound |-> NoExpression],
     Sample |-> [name |-> <<Literal(TRUE, <<"film">>)>>, prop |-> NoExpression]]

\* the fields declared with updatable=True
UpdatableFields == {<<"Prop", "specifier">>}

\* compound_model.labels.parse_expression, as declared and after a label of
\* the document was added by update
LabelExpressions == {Declared("NoMatch"), Declared("NoMatch") \o <<Literal(TRUE, <<"1a">>)>>}

\* the sentences: no word of them is a chemical name
Words == {"tauD", "tD", "film", "1a"}
Sentences == UNION {[1..n -> Words] : n \in 0..MaxSentence}

\* the test of the loop of trigger_phrase on a field
Triggers(fd) == fd.required /\ fd.requiredness = 100 /\ ~fd.contextual

\* AutoSentenceParser.trigger_phrase: what self._trigger_property is after
\* the property was read, "None" for None before and "False" for False
trigger_property(cached, model) ==
    IF cached # "None" THEN cached
    ELSE LET found == {i \in 1..Len(FieldOrder[model]) :
                          Triggers(Fields[model][FieldOrder[model][i]])}
         IN  IF found = {} THEN "False"
             ELSE FieldOrder[model][CHOOSE i \in found : \A j \in found : i <= j]

\* what trigger_phrase returns
trigger_phrase(cached, model, exprs) ==
    IF trigger_property(cached, model) = "False" THEN NoExpression
    ELSE exprs[trigger_property(cached, model)]

\* self.trigger_phrase is None or trigger_phrase_results, with the gate shut
\* unless the trigger is found at the first word
GateAtStart(trigger, tokens) ==
    trigger = NoExpression \/ (tokens # <<>> /\ Scans(trigger, <<tokens[1]>>))

\* self.trigger_phrase is None or trigger_phrase_results
Gate(trigger, tokens) == trigger = NoExpression \/ Scans(trigger, tokens)

\* the names the loop of root over the fields leaves out
RootLeavesOut == {"raw_value", "raw_units", "value", "units", "error", "specifier"}

\* the entities of AutoSentenceParser.root in their order: the labels of the
\* compound, the specifier, the other fields that have a parse expression
EntitiesOfRoot(model, exprs, labels) ==
    LET named == SelectSeq(FieldOrder[model],
                           LAMBDA f : f \notin RootLeavesOut /\ exprs[f] # NoExpression)
    IN  (IF "compound" \in FieldNames(model)
         THEN <<[tag |-> "labels", expr |-> labels]>> ELSE <<>>)
        \o (IF "specifier" \in FieldNames(model)
            THEN <<[tag |-> "specifier", expr |-> exprs.specifier]>> ELSE <<>>)
        \o [i \in 1..Len(named) |-> [tag |-> named[i], expr |-> exprs[named[i]]]]

\* the first of the entities that matches the word at p, 0 if none does
EntityAt(ents, tokens, p) ==
    LET hits == {i \in 1..Len(ents) : Scans(ents[i].expr, <<tokens[p]>>)}
    IN  IF hits = {} THEN 0 ELSE CHOOSE i \in hits : \A j \in hits : i <= j

\* the result with the match of an entity added: a label stands in a
\* compound element of its own
WithMatch(tree, tag, text) ==
    IF tag = "labels"
    THEN DictPut(tree, "compound", Children(tree, "compound") \o <<[labels |-> <<text>>]>>)
    ELSE DictPut(tree, tag, Children(tree, tag) \o <<text>>)

RECURSIVE RootFrom(_, _, _, _)
\* OneOrMore(combined_entities + Optional(SkipTo(combined_entities))) from the
\* word at p on: every word an entity matches is added to the result
RootFrom(ents, tokens, p, tree) ==
    IF p > Len(tokens) THEN tree
    ELSE RootFrom(ents, tokens, p + 1,
                  IF EntityAt(ents, tokens, p) = 0 THEN tree
                  ELSE WithMatch(tree, ents[EntityAt(ents, tokens, p)].tag, tokens[p]))

\* self.root.scan(sentence.tokens): one result that begins at the first
\* match and ends at the last, none in a sentence without a match
RootScan(model, exprs, labels, tokens) ==
    LET tree == RootFrom(EntitiesOfRoot(model, exprs, labels), tokens, 1, NoDict)
    IN  IF DOMAIN tree = {} THEN <<>> ELSE <<tree>>

\* parse_sentence: the records of interpret for the results of the scan of
\* the root, which is left out when the gate is shut
parse_sentence(h, c, tokens, open) ==
    InterpretFrom(h, c.parser, c.model,
                  IF open THEN RootScan(c.model, c.exprs, c.labels, tokens) ELSE <<>>,
                  1, <<>>)

InitGate ==
    /\ heap = EmptyHeap
    /\ recA = 0
    /\ others = <<>>
    /\ models = <<>>
    /\ pre = [heap |-> EmptyHeap, models |-> <<>>]
    /\ last = NoCall
    /\ steps = 0
    /\ wire = <<>>
    /\ inferrer = <<>>
    /\ calls = <<>>
    /\ \E model \in GateModels, labels \in LabelExpressions :
          cell = [parser |-> "AutoSentenceParser", model |-> model,
                  exprs |-> FieldExpressions[model], labels |-> labels,
                  trigger_property |-> "None", trigger |-> NoExpression, tokens |-> <<>>,
                  updates |-> 0]
    /\ yielded = <<>>
    /\ UnitsInit
    /\ SharedInit

\* list(parser.parse_sentence(sentence))
ParseSentence ==
    /\ steps < MaxParses
    /\ \E tokens \in Sentences :
       \E trigger \in {trigger_phrase(cell.trigger_property, cell.model, cell.exprs)} :
       \E r \in {parse_sentence(heap, cell, tokens, Gate(trigger, tokens))} :
          /\ cell' = [cell EXCEPT !.trigger_property = trigger_property(@, cell.model),
                                  !.trigger = trigger, !.tokens = tokens]
          /\ heap' = r.h
          /\ yielded' = r.ys
          /\ last' = Call("parse_sentence", 0, 0, 0, FALSE,
                          IF Gate(trigger, tokens) THEN "scanned" ELSE "skipped")
    /\ pre' = [heap |-> heap, models |-> models]
    /\ steps' = steps + 1
    /\ UNCHANGED <<recA, others, models, wire, inferrer, calls, units, shared>>

\* model.update([definition], strict) between two sentences: the updatable
\* fields whose expression is found in the definition get its specifier
UpdateModel ==
    /\ cell.updates < MaxUpdates
    /\ \E definition \in SpecifierDefinitions, strict \in BOOLEAN :
          cell' = [cell EXCEPT !.updates = @ + 1, !.exprs =
                      [f \in DOMAIN @ |->
                          IF <<cell.model, f>> \in UpdatableFields
                             /\ Scans(@[f], definition.tokens)
                          THEN Append(@[f], Literal(strict, <<definition.specifier>>))
                          ELSE @[f]]]
    /\ last' = Call("update", 0, 0, 0, FALSE, "None")
    /\ pre' = [heap |-> heap, models |-> models]
    /\ UNCHANGED <<heap, recA, others, models, steps, wire, inferrer, calls, yielded, units,
                   shared>>

NextGate == ParseSentence \/ UpdateModel

SpecGate == InitGate /\ [][NextGate]_vars

\* the records of a call, as they are serialized
Records(r) == [j \in 1..Len(r.ys) |-> serialize(r.h, r.ys[j].rec)]

\* the trigger of the last call is the parse expression its model now has
\* for the first field that is required with requiredness 1.0 and not
\* contextual, and None when no field is
TriggerAsStated ==
    LET hard == {f \in FieldNames(cell.model) : Hard(Fields[cell.model][f])}
    IN  IF hard = {}
        THEN cell.trigger_property = "False" /\ cell.trigger = NoExpression
        ELSE /\ cell.trigger_property \in hard
             /\ cell.trigger = cell.exprs[cell.trigger_property]

\* C26: for every sentence, parsing with the trigger-phrase gate yields the
\* records that the scan of the root grammar yields when it is run
\* unconditionally, and the trigger is the current parse expression of a
\* required, requiredness 1.0, non-contextual field, None without such a field.
C26_GateYieldsTheRecordsOfTheScan ==
    [][last'.op = "parse_sentence"
       => /\ Records([h |-> heap', ys |-> yielded'])
             = Records(parse_sentence(heap, cell', cell'.tokens, TRUE))
          /\ TriggerAsStated']_vars

\* the gate was shut on a sentence of a property model in which the root
\* phrase has a match, after the specifier had been updated
C26_Witness ==
    /\ last.op = "parse_sentence"
    /\ last.ret = "skipped"
    /\ cell.model = "Prop"
    /\ Len(cell.exprs.specifier) = 2
    /\ RootScan(cell.model, cell.exprs, cell.labels, cell.tokens) # <<>>

----------------------------------------------------------------------------
(* The action of the unit element: _clean_units_results *)

\* A text is the sequence of its characters.  The tokens the unit element
\* matches: a bracket by itself, a unit, a dash by itself.
UnitTokens == {<<"(">>, <<")">>, <<"[">>, <<"n", "m">>, <<"-">>}

\* the matched spans: one element for each token, the first tagged raw_units
Spans == UNION {[1..n -> UnitTokens] : n \in 1..MaxSpan}

\* brackets and bracket_matches, in the order of the dictionary
BracketTypes == <<"{", "(", "[">>
ClosingOf == [b \in {"{", "(", "["} |-> CASE b = "{" -> "}" [] b = "(" -> ")" [] b = "[" -> "]"]

\* how many of the texts are the token t
Occurrences(texts, t) == Cardinality({i \in 1..Len(texts) : texts[i] = <<t>>})

\* brackets[bracket_type] after the count
Surplus(texts, b) == Occurrences(texts, b) - Occurrences(texts, ClosingOf[b])

RECURSIVE StripFirst(_, _, _)
\* the texts without the first n tokens t
StripFirst(texts, t, n) ==
    IF texts = <<>> THEN <<>>
    ELSE IF Head(texts) = <<t>> /\ n > 0 THEN StripFirst(Tail(texts), t, n - 1)
    ELSE <<Head(texts)>> \o StripFirst(Tail(texts), t, n)

RECURSIVE StripLast(_, _, _)
\* the texts without the last n tokens t
StripLast(texts, t, n) ==
    IF texts = <<>> THEN <<>>
    ELSE IF texts[Len(texts)] = <<t>> /\ n > 0
    THEN StripLast(SubSeq(texts, 1, Len(texts) - 1), t, n - 1)
    ELSE StripLast(SubSeq(texts, 1, Len(texts) - 1), t, n) \o <<texts[Len(texts)]>>

\* one round of the loop over brackets.items()
StripType(cleaned, b, value) ==
    IF value > 0 THEN StripFirst(cleaned, b, value)
    ELSE IF value < 0 THEN StripLast(cleaned, ClosingOf[b], 0 - value)
    ELSE cleaned

RECURSIVE cleaned_texts(_, _, _)
\* cleaned_texts after the rounds from the i-th bracket type on
cleaned_texts(texts, cleaned, i) ==
    IF i > Len(BracketTypes) THEN cleaned
    ELSE cleaned_texts(texts, StripType(cleaned, BracketTypes[i], Surplus(texts, BracketTypes[i])),
                       i + 1)

RECURSIVE Joined(_)
\* ''.join(texts)
Joined(texts) == IF texts = <<>> THEN <<>> ELSE Head(texts) \o Joined(Tail(texts))

Dashes == {"-"}

\* new_text[-1] of an empty text is an IndexError; a dash at the end is cut
NewText(new_text) ==
    IF new_text = <<>> THEN Raise("IndexError")
    ELSE [k |-> "node",
          text |-> IF new_text[Len(new_text)] \in Dashes
                   THEN SubSeq(new_text, 1, Len(new_text) - 1) ELSE new_text]

\* _clean_units_results(tokens, start, result) for a result with elements
clean_units_results(texts) == NewText(Joined(cleaned_texts(texts, texts, 1)))

InitClean ==
    /\ heap = EmptyHeap
    /\ recA = 0
    /\ others = <<>>
    /\ models = <<>>
    /\ pre = [heap |-> EmptyHeap, models |-> <<>>]
    /\ last = NoCall
    /\ steps = 0
    /\ wire = <<>>
    /\ inferrer = <<>>
    /\ calls = <<>>
    /\ cell = <<>>
    /\ yielded = <<>>
    /\ \E texts \in Spans, tag \in {"raw_units", "units"} : args = [texts |-> texts, tag |-> tag]
    /\ element = <<>>
    /\ SharedInit

\* the action runs on a match of the unit element
CleanUnitsResults ==
    /\ last.op = "init"
    /\ \E r \in {clean_units_results(args.texts)} :
          element' = IF r.k = "raise" THEN r ELSE [k |-> "node", tag |-> args.tag, text |-> r.text]
    /\ last' = Call("_clean_units_results", 0, 0, 0, FALSE, "element")
    /\ steps' = steps + 1
    /\ UNCHANGED <<heap, recA, others, models, pre, wire, inferrer, calls, cell, yielded, args, shared>>

NextClean == CleanUnitsResults

SpecClean == InitClean /\ [][NextClean]_vars

\* texts is what is left of the span when only bracket tokens are taken
\* out, the surplus of opening ones from the front and of closing ones from
\* the back, so that each type has as many opening as closing tokens left
WithoutUnmatched(texts, left) ==
    /\ left = cleaned_texts(texts, texts, 1)
    /\ \A i \in 1..Len(BracketTypes) :
          Occurrences(left, BracketTypes[i]) = Occurrences(left, ClosingOf[BracketTypes[i]])

\* C27: for every non-empty matched unit span, _clean_units_results returns
\* without raising a single node tagged like the first input node, whose text
\* is the concatenation of the span's token texts with the unmatched bracket
\* tokens removed, each bracket type left with as many opening as closing tokens.
C27_CleanedSpanIsTheBalancedConcatenation ==
    last.op = "_clean_units_results"
    => /\ element.k = "node"
       /\ element.tag = args.tag
       /\ \E left \in {cleaned_texts(args.texts, args.texts, 1)} :
             /\ WithoutUnmatched(args.texts, left)
             /\ element.text = Joined(left)

\* what holds: the call raises IndexError exactly when nothing is left of the
\* span, and otherwise the node has the tag of the first element and the
\* balanced concatenation as its text, without a dash at its very end
T27_CleanedSpanButForEmptyAndDash ==
    last.op = "_clean_units_results"
    => \E left \in {cleaned_texts(args.texts, args.texts, 1)} :
          /\ WithoutUnmatched(args.texts, left)
          /\ IF Joined(left) = <<>> THEN element = Raise("IndexError")
             ELSE /\ element.k = "node"
                  /\ element.tag = args.tag
                  /\ element.text \in {Joined(left), Front(Joined(left))}
                  /\ element.text = Joined(left) <=> Joined(left)[Len(Joined(left))] \notin Dashes



----------------------------------------------------------------------------
(* What the merges do to the records handed to them *)

\* the record r, the records nested in it and their confidences are in the
\* heap what they were before the last call
AsBefore(r) ==
    /\ Same(pre.heap, ObjV(r), heap, ObjV(r))
    /\ \A n \in Nested(pre.heap, r) : ConfOf(heap, n) = ConfOf(pre.heap, n)

\* C28: merge_contextual(A, B, d) and merge_all(A, B, d) never change B: its
\* field values, those of its nested records and its confidences are after the
\* call what they were before, and stay so when A is changed afterwards by
\* further merges or by the consolidation of its binding fields.
C28_MergesNeverChangeTheOther ==
    IsMerge => \A k \in 1..Len(others) : AsBefore(others[k])

----------------------------------------------------------------------------
(* What remove_subsets keeps of the list *)

\* the records of the list before the call that are not in it afterwards
RemovedModels == ElementsOf(pre.models) \ ElementsOf(models)

\* C29: remove_subsets never loses information: for both values of strict,
\* every record it removes is a subset of some record of its type that is
\* still in the list afterwards, the remaining records are a sub-collection of
\* the input, and a non-empty list never becomes empty.
C29_RemoveSubsetsLosesNothing ==
    last.op = "remove_subsets" =>
        /\ \A y \in RemovedModels :
               \E x \in ElementsOf(models) :
                   /\ ClassOf(heap, x) = ClassOf(heap, y)
                   /\ is_subset(heap, y, x)
        /\ ElementsOf(models) \subseteq ElementsOf(pre.models)
        /\ Cardinality(ElementsOf(models)) = Len(models)
        /\ heap = pre.heap
        /\ pre.models # <<>> => models # <<>>

\* a list went through remove_subsets in which a removed record is a subset of
\* another removed record, and of one that remains
C29_Witness ==
    /\ last.op = "remove_subsets"
    /\ models # <<>>
    /\ \E y, z \in RemovedModels :
           /\ y # z
           /\ is_subset(heap, y, z)
           /\ \E x \in ElementsOf(models) : is_subset(heap, y, x)

----------------------------------------------------------------------------
(* The resets between two documents: reset_ThemeCompound_labels,
   reset_current_doc_compound and reset_updatables, called on ThemeCompound
   after its update calls *)

\* ThemeCompound.reset_ThemeCompound_labels()
reset_ThemeCompound_labels(k, cls) ==
    [k EXCEPT !.exprs[cls].labels = Declared("NoMatch")]

\* Compound.reset_current_doc_compound(): both attributes are assigned on cls
reset_current_doc_compound(k, cls) ==
    IF cls = "ThemeCompound"
    THEN [k EXCEPT !.own = <<{}>>, !.cdce[cls] = Declared("NoMatch")]
    ELSE [k EXCEPT !.cdc = {}, !.cdce[cls] = Declared("NoMatch")]

\* BaseModel.reset_updatables(), with BaseType.reset() for every updatable
\* field
reset_updatables(k, cls) ==
    IF Updatable[cls]
    THEN [k EXCEPT !.exprs[cls] = ParseExpressions[cls], !.updated[cls] = FALSE]
    ELSE k

Resets == {"reset_ThemeCompound_labels", "reset_current_doc_compound", "reset_updatables"}

\* cell: the resets called since the last update call, the update calls of
\* the document at hand, and the documents begun
InitReset ==
    /\ heap = EmptyHeap
    /\ recA = 0
    /\ others = <<>>
    /\ models = <<>>
    /\ pre = [heap |-> EmptyHeap, models |-> <<>>]
    /\ last = NoCall
    /\ steps = 0
    /\ wire = <<>>
    /\ inferrer = <<>>
    /\ calls = <<>>
    /\ cell = [resets |-> {}, updates |-> 0, docs |-> 1]
    /\ yielded = <<>>
    /\ UnitsInit
    /\ klass = NewClasses
    /\ procs = <<>>

\* an update call on ThemeCompound: of the document at hand, or the first of
\* the next document when the three resets have been called
DocumentUpdated(op) ==
    /\ IF cell.resets = Resets
       THEN /\ cell.docs < MaxUpdates
            /\ cell' = [resets |-> {}, updates |-> 1, docs |-> cell.docs + 1]
       ELSE /\ cell.updates < MaxUpdates
            /\ cell' = [cell EXCEPT !.resets = {}, !.updates = @ + 1]
    /\ steps' = steps + 1
    /\ last' = Call(op, 0, 0, 0, FALSE, "None")
    /\ UNCHANGED <<heap, recA, others, models, pre, wire, inferrer, calls, yielded, units, procs>>

\* a reset called on ThemeCompound
DocumentReset(op) ==
    /\ op \notin cell.resets
    /\ cell' = [cell EXCEPT !.resets = @ \cup {op}]
    /\ steps' = steps + 1
    /\ last' = Call(op, 0, 0, 0, FALSE, "None")
    /\ UNCHANGED <<heap, recA, others, models, pre, wire, inferrer, calls, yielded, units, procs>>

\* ThemeCompound.update(definitions, strict)
ThemeUpdate ==
    /\ \E definitions \in ListsOf(Labels), strict \in BOOLEAN :
          klass' = compound_update(klass, "ThemeCompound", definitions, strict)
    /\ DocumentUpdated("update")

\* ThemeCompound.update_abbrev(definitions, strict)
ThemeUpdateAbbrev ==
    /\ \E definitions \in ListsOf(AbbreviationDefinitions), strict \in BOOLEAN :
          klass' = theme_update_abbrev(klass, "ThemeCompound", definitions, strict)
    /\ DocumentUpdated("update_abbrev")

\* ThemeCompound.update_theme_compound(record_names, strict)
ThemeUpdateThemeCompound ==
    /\ \E record_names \in ListsOf(Names), strict \in BOOLEAN :
          klass' = update_theme_compound(klass, "ThemeCompound", record_names, strict)
    /\ DocumentUpdated("update_theme_compound")

\* ThemeCompound.reset_ThemeCompound_labels()
ResetThemeCompoundLabels ==
    /\ klass' = reset_ThemeCompound_labels(klass, "ThemeCompound")
    /\ DocumentReset("reset_ThemeCompound_labels")

\* ThemeCompound.reset_current_doc_compound()
ResetCurrentDocCompound ==
    /\ klass' = reset_current_doc_compound(klass, "ThemeCompound")
    /\ DocumentReset("reset_current_doc_compound")

\* ThemeCompound.reset_updatables()
ResetUpdatables ==
    /\ klass' = reset_updatables(klass, "ThemeCompound")
    /\ DocumentReset("reset_updatables")

NextReset ==
    \/ ThemeUpdate
    \/ ThemeUpdateAbbrev
    \/ ThemeUpdateThemeCompound
    \/ ResetThemeCompoundLabels
    \/ ResetCurrentDocCompound
    \/ ResetUpdatables

SpecReset == InitReset /\ [][NextReset]_vars

\* the grammar state of the class cls is what it is when the class is imported
InitialGrammar(cls) ==
    /\ klass.exprs[cls] = ParseExpressions[cls]
    /\ current_doc_compound(klass, cls) = {}
    /\ Expressions(klass, cls) = Declared("NoMatch")
    /\ ~klass.updated[cls]

\* C30: after any update, update_abbrev and update_theme_compound calls on
\* ThemeCompound, the calls of reset_ThemeCompound_labels,
\* reset_current_doc_compound and reset_updatables restore the grammar state
\* of ThemeCompound and of Compound: the parse expressions of the fields,
\* current_doc_compound (empty), current_doc_compound_expressions (NoMatch)
\* and the _updated flag.
C30_ResetsRestoreTheGrammarState ==
    (cell.resets = Resets /\ cell.updates > 0)
    => InitialGrammar("ThemeCompound") /\ InitialGrammar("Compound")

\* what holds after the three resets: the state of ThemeCompound is restored,
\* and that of Compound but for current_doc_compound, which keeps the names
\* added while ThemeCompound had no set of its own
T30_ThemeCompoundRestored ==
    (cell.resets = Resets /\ cell.updates > 0)
    => /\ InitialGrammar("ThemeCompound")
       /\ klass.exprs.Compound = ParseExpressions.Compound
       /\ klass.cdce.Compound = Declared("NoMatch")
       /\ ~klass.updated.Compound

========================================================================
